---- MODULE Spec2Model ----
(***************************************************************************)
(* Delve taxonomy pipeline (TypeScript SDK): Delve.run builds the initial  *)
(* graph state, the LangGraph workflow runs the nodes load_data,           *)
(* summarize, get_minibatches, generate_taxonomy, update_taxonomy,         *)
(* review_taxonomy and label_documents, and buildResult assembles the      *)
(* DelveResult.  Generation calls (chain.invoke) are the environment: the  *)
(* text they return is drawn from bounded sets of outputs, or they throw.  *)
(***************************************************************************)
EXTENDS Integers, Sequences, FiniteSets, TLC

(***************************************************************************)
(* Bounds of the model                                                     *)
(***************************************************************************)
\* largest corpus handed to Delve.run
MaxDocs == 3
\* largest number of <cluster> elements in one generation output
MaxOutClusters == 3
\* longest document list handed to sampleDocuments on its own
MaxSampleDocs == 4
\* largest document count handed to generateMinibatches on its own
MaxCount == 8
\* largest corpus of a run whose caller may cancel it
MaxCancelDocs == 2
\* largest `timeout` option of an API client, in seconds
MaxTimeout == 4
\* most progress messages one event stream delivers
MaxProgress == 2
\* largest corpus of a run that shares the process with another run
MaxConcurrentDocs == 2
\* most <cluster> elements of an output handed to parseTaxonomy on its own
MaxParseClusters == 2

(***************************************************************************)
(* Values                                                                  *)
(***************************************************************************)
\* a field that is absent (JavaScript undefined / null)
Undefined == "undefined"

\* String(n) of a non-negative integer
String(n) == ToString(n)

\* strings matched by the regular expression \d+ among the values used here
DigitStrings == {String(n) : n \in 0..9}

\* names the generation call gives its categories, by position
CategoryNames == <<"Account", "Technical", "Billing", "Shipping", "Feedback">>

Min(a, b) == IF a < b THEN a ELSE b

\* Array.prototype.slice(from, to) on a sequence indexed from 1 (arguments
\* are 0-based as in the source; negative arguments count from the end)
SliceIndex(k, len) == IF k < 0 THEN (IF len + k < 0 THEN 0 ELSE len + k)
                      ELSE Min(k, len)
Slice(s, from, to) ==
    LET f == SliceIndex(from, Len(s))
        t == SliceIndex(to, Len(s))
    IN  IF f >= t THEN <<>> ELSE [k \in 1..(t - f) |-> s[f + k]]

(***************************************************************************)
(* Documents: Delve.run normalizes the caller's inputs to Doc records      *)
(***************************************************************************)
\* a plain string input
RawString(c) == [kind |-> "string", id |-> Undefined, content |-> c]
\* a Doc input; id is Undefined when the caller gave none
RawDoc(i, c) == [kind |-> "doc", id |-> i, content |-> c]

Content(i) == "content-" \o String(i)

\* the corpora a caller hands to run(): plain strings, or Doc objects of
\* which some carry an id of their own
Corpora ==
    {[i \in 1..m |-> RawString(Content(i))] : m \in 0..MaxDocs}
    \cup {<<RawDoc("ticket-a", Content(1)), RawDoc(Undefined, Content(2))>>}

\* documents.map((doc, index) => ...) in Delve.run
NormalizeDoc(raw, index) ==
    IF raw.kind = "string"
    THEN [id |-> String(index + 1), content |-> raw.content,
          summary |-> Undefined, explanation |-> Undefined, category |-> Undefined]
    ELSE [id |-> IF raw.id = Undefined \/ raw.id = "" THEN String(index + 1) ELSE raw.id,
          content |-> raw.content,
          summary |-> Undefined, explanation |-> Undefined, category |-> Undefined]

NormalizeDocuments(raws) == [i \in 1..Len(raws) |-> NormalizeDoc(raws[i], i - 1)]

(***************************************************************************)
(* Sampler: sampleDocuments                                                *)
(***************************************************************************)
\* a swap that forgets to store the old shuffled[i] at j
SwapOverwrites(arr, i, j) ==
    [k \in 1..Len(arr) |-> IF k = i + 1 THEN arr[j + 1] ELSE arr[k]]

\* [shuffled[i], shuffled[j]] = [shuffled[j], shuffled[i]] (0-based i, j)
Swap(arr, i, j) ==
    [k \in 1..Len(arr) |-> IF k = i + 1 THEN arr[j + 1]
                           ELSE IF k = j + 1 THEN arr[i + 1] ELSE arr[k]]

\* the Fisher-Yates loop from index i down to 1: every array the loop can
\* leave behind, over all values j = floor(random() * (i + 1)) in 0..i
RECURSIVE FisherYates(_, _)
FisherYates(arr, i) ==
    IF i > 0
    THEN UNION {FisherYates(Swap(arr, i, j), i - 1) : j \in 0..i}
    ELSE {arr}

\* an array literal that hands back its argument instead of a new array
SpreadAliases(arr) == [elements |-> arr, isArgument |-> TRUE]

\* [...docs]: a new array with the elements of docs; isArgument tells whether
\* the array is the very array that was passed in
Spread(arr) == [elements |-> arr, isArgument |-> FALSE]

\* a sampler without the early return: it always shuffles and slices
sampleDocumentsAlwaysShuffles(docs, sampleSize) ==
    LET shuffled0 == Spread(docs)
    IN  {[value |-> Slice(shuffled, 0, sampleSize),
          aliased |-> FALSE,
          docs |-> IF shuffled0.isArgument THEN shuffled ELSE docs] :
            shuffled \in FisherYates(shuffled0.elements, Len(docs) - 1)}

\* every outcome of sampleDocuments(docs, sampleSize): the value returned,
\* whether that value is the caller's own array, and the elements of the
\* caller's array once the call is over (the loop swaps in place in
\* `shuffled`; slice returns a new array)
sampleDocuments(docs, sampleSize) ==
    IF sampleSize <= 0 \/ sampleSize >= Len(docs)
    THEN {[value |-> Spread(docs).elements,
           aliased |-> Spread(docs).isArgument,
           docs |-> docs]}
    ELSE LET shuffled0 == Spread(docs)
         IN  {[value |-> Slice(shuffled, 0, sampleSize),
               aliased |-> FALSE,
               docs |-> IF shuffled0.isArgument THEN shuffled ELSE docs] :
                 shuffled \in FisherYates(shuffled0.elements, Len(docs) - 1)}

(***************************************************************************)
(* Batcher: generateMinibatches                                            *)
(***************************************************************************)
\* Array.from({ length: docCount }, (_, i) => i)
Indices(docCount) == [k \in 1..(IF docCount > 0 THEN docCount ELSE 0) |-> k - 1]

\* a loop whose slice takes one index too many (an inclusive end)
RECURSIVE BatchLoopInclusiveEnd(_, _, _, _)
BatchLoopInclusiveEnd(indices, batchSize, i, fuel) ==
    IF ~(i < Len(indices))
    THEN [returns |-> TRUE, batches |-> <<>>]
    ELSE IF fuel = 0
    THEN [returns |-> FALSE, batches |-> <<>>]
    ELSE LET rest == BatchLoopInclusiveEnd(indices, batchSize, i + batchSize, fuel - 1)
         IN  [returns |-> rest.returns,
              batches |-> <<Slice(indices, i, i + batchSize + 1)>> \o rest.batches]

\* the for loop of generateMinibatches, from loop variable i on.  The loop
\* body runs while i < indices.length; with a positive integer batchSize it
\* runs at most indices.length times, so a loop that is still running after
\* `fuel` = indices.length + 1 iterations never ends (i does not advance).
RECURSIVE BatchLoop(_, _, _, _)
BatchLoop(indices, batchSize, i, fuel) ==
    IF ~(i < Len(indices))
    THEN [returns |-> TRUE, batches |-> <<>>]
    ELSE IF fuel = 0
    THEN [returns |-> FALSE, batches |-> <<>>]
    ELSE LET rest == BatchLoop(indices, batchSize, i + batchSize, fuel - 1)
         IN  [returns |-> rest.returns,
              batches |-> <<Slice(indices, i, i + batchSize)>> \o rest.batches]

\* generateMinibatches(docCount, batchSize): `returns` is FALSE when the
\* loop never terminates, otherwise `batches` is the value returned
generateMinibatches(docCount, batchSize) ==
    BatchLoop(Indices(docCount), batchSize, 0, Len(Indices(docCount)) + 1)

(***************************************************************************)
(* Generation outputs and their parsers                                    *)
(***************************************************************************)
\* one <cluster> element of a generation output; a field is Undefined when
\* its tag is missing
ClusterXml(i, n, d) == [id |-> i, name |-> n, description |-> d]

\* a taxonomy generation output: the <cluster> elements inside its first
\* <cluster_table> element (when it has one) and those outside of it
TaxonomyXml(hasTable, table, outside) ==
    [hasTable |-> hasTable, table |-> table, outside |-> outside]

\* idMatch && nameMatch in parseTaxonomy: <id> holds digits, <name> exists
ClusterMatches(c) == c.id \in DigitStrings /\ c.name # Undefined

\* parseTaxonomy(xmlString)
parseTaxonomy(xml) ==
    LET content == IF xml.hasTable THEN xml.table ELSE xml.outside
        matched == SelectSeq(content, ClusterMatches)
    IN  [k \in 1..Len(matched) |->
            [id |-> matched[k].id,
             name |-> matched[k].name,
             description |-> IF matched[k].description = Undefined
                             THEN "" ELSE matched[k].description]]

\* parseSummary(xmlString): a summarization output is its <summary> and
\* <explanation> elements, Undefined when the tag is missing
parseSummary(xml) ==
    [summary |-> IF xml.summary = Undefined THEN "" ELSE xml.summary,
     explanation |-> IF xml.explanation = Undefined THEN "" ELSE xml.explanation]

\* parseCategoryId(output): a labeler output is the text of its
\* <category_id> element, Undefined when the tag is missing; the result is
\* Undefined (null) unless that text is made of digits
parseCategoryId(output) ==
    IF output.category_id \in DigitStrings THEN output.category_id ELSE Undefined

\* taxonomy.find((c) => c.id === categoryId): position of the first match,
\* 0 when there is none
FindCategory(categoryId, taxonomy) ==
    LET hits == {k \in 1..Len(taxonomy) : taxonomy[k].id = categoryId}
    IN  IF hits = {} THEN 0 ELSE CHOOSE k \in hits : \A h \in hits : k <= h

\* a lookup that returns the matching category's id instead of its name
getCategoryNameByIdReturnsId(categoryId, taxonomy) ==
    LET k == FindCategory(categoryId, taxonomy)
    IN  IF k = 0 THEN [throws |-> TRUE, name |-> Undefined]
        ELSE [throws |-> FALSE, name |-> taxonomy[k].id]

\* getCategoryNameById(categoryId, taxonomy): throws when no category has
\* that id, otherwise returns the name of the first one that has
getCategoryNameById(categoryId, taxonomy) ==
    LET k == FindCategory(categoryId, taxonomy)
    IN  IF k = 0 THEN [throws |-> TRUE, name |-> Undefined]
        ELSE [throws |-> FALSE, name |-> taxonomy[k].name]

\* formatTaxonomyAsXml(taxonomy): a <cluster_table> with one <cluster> per
\* category, carrying its id, name and description
formatTaxonomyAsXml(taxonomy) ==
    TaxonomyXml(TRUE,
                [k \in 1..Len(taxonomy) |->
                    ClusterXml(taxonomy[k].id, taxonomy[k].name, taxonomy[k].description)],
                <<>>)

\* a formatter that always writes the summary, empty or not
formatDocsAsXmlSummaryOnly(docs) ==
    [k \in 1..Len(docs) |->
        [id |-> docs[k].id,
         text |-> IF docs[k].summary = Undefined THEN "" ELSE docs[k].summary]]

\* formatDocsAsXml(docs): per document its id and `summary || content`
formatDocsAsXml(docs) ==
    [k \in 1..Len(docs) |->
        [id |-> docs[k].id,
         text |-> IF docs[k].summary \in {Undefined, ""}
                  THEN docs[k].content ELSE docs[k].summary]]

\* countCategories(docs): documents per category; `if (doc.category)` skips
\* a missing or empty category
countCategories(docs) ==
    LET counted == {k \in 1..Len(docs) : docs[k].category \notin {Undefined, ""}}
        names == {docs[k].category : k \in counted}
    IN  [n \in names |-> Cardinality({k \in counted : docs[k].category = n})]

(***************************************************************************)
(* What the caller and the generation service can supply                   *)
(***************************************************************************)
\* DEFAULT_CONFIG
DefaultSampleSize == 100
DefaultBatchSize == 200
DefaultMaxNumClusters == 5

\* DelveConfig values given to the constructor: sampleSize and batchSize
\* small enough to sample and to split the corpus or left at their
\* defaults, with maxNumClusters = 2; and the non-positive values of each
\* option
Configs ==
    {[sampleSize |-> s, batchSize |-> b, maxNumClusters |-> 2] :
        s \in {1, 2, DefaultSampleSize}, b \in {1, 2, DefaultBatchSize}}
    \cup {[sampleSize |-> s, batchSize |-> 2, maxNumClusters |-> 2] : s \in {-1, 0}}
    \cup {[sampleSize |-> 2, batchSize |-> b, maxNumClusters |-> 2] : b \in {-1, 0}}
    \cup {[sampleSize |-> 2, batchSize |-> 2, maxNumClusters |-> c] : c \in {-1, 0, 1}}

\* RunOptions.predefinedTaxonomy: absent, or an array of categories; name is
\* any string, the empty one and "Other" included
NoPredefined == [given |-> FALSE, taxonomy |-> <<>>]
PredefinedOptions ==
    {NoPredefined,
     [given |-> TRUE, taxonomy |-> <<>>],
     [given |-> TRUE,
      taxonomy |-> <<[id |-> "1", name |-> "Bug", description |-> "Bug reports"],
                     [id |-> "2", name |-> "Feature", description |-> "Feature requests"]>>],
     [given |-> TRUE,
      taxonomy |-> <<[id |-> "1", name |-> "", description |-> "not named yet"],
                     [id |-> "2", name |-> "Other", description |-> "Everything else"]>>]}

\* summarization outputs for a document: both fields present, or neither
SummaryOf(content) == "summary of " \o content
CompleteSummary(content) == [summary |-> SummaryOf(content), explanation |-> "because"]
MalformedSummary == [summary |-> Undefined, explanation |-> Undefined]
\* the outputs of one summarize node: one output per document
SummaryOutputs(docs) ==
    {[k \in 1..Len(docs) |-> IF k \in malformed THEN MalformedSummary
                             ELSE CompleteSummary(docs[k].content)] :
        malformed \in SUBSET (1..Len(docs))}

\* a taxonomy output with a <cluster_table> of k complete clusters numbered
\* "1".."k" (k = 0: a table without clusters)
WellFormed(k) ==
    TaxonomyXml(TRUE,
                [i \in 1..k |-> ClusterXml(String(i), CategoryNames[i], "about it")],
                <<>>)
\* a taxonomy output without table: a repeated id, a missing description and
\* a cluster without id
Irregular ==
    TaxonomyXml(FALSE, <<>>,
                <<ClusterXml("1", CategoryNames[1], "about it"),
                  ClusterXml("1", CategoryNames[2], Undefined),
                  ClusterXml(Undefined, CategoryNames[3], "about it")>>)
\* the generation call is advisory: it may return no cluster, fewer than or
\* more than max_num_clusters clusters, whatever the prompt said
TaxonomyOutputs == {WellFormed(0), WellFormed(MaxOutClusters), Irregular}

\* labeler outputs: no <category_id> tag, or a tag holding an id
LabelOutputs == {[category_id |-> Undefined], [category_id |-> "1"], [category_id |-> "2"]}

(***************************************************************************)
(* State                                                                   *)
(***************************************************************************)
VARIABLES
    config,                \* this.config of the Delve instance
    options,               \* RunOptions of the run (predefinedTaxonomy)
    allDocuments,          \* GraphState channels ...
    documents,
    minibatches,
    clusters,
    status,
    llmLabeledCount,
    classifierLabeledCount,
    skippedDocumentCount,
    warnings,
    pc,                    \* the node the graph runs next, or how run() ended
    result,                \* the DelveResult run() resolved with
    error,                 \* the error run() rejected with
    summaryCalls,          \* generation calls issued so far, in order
    taxonomyCalls,
    labelCalls,
    call,                  \* a utility function called on its own: arguments, result
    cancelRequested        \* the node that was running when the caller of run()
                           \* decided to cancel the run

vars == <<config, options, allDocuments, documents, minibatches, clusters, status,
          llmLabeledCount, classifierLabeledCount, skippedDocumentCount, warnings,
          pc, result, error, summaryCalls, taxonomyCalls, labelCalls, call,
          cancelRequested>>

channels == <<allDocuments, documents, minibatches, clusters, status, llmLabeledCount,
              classifierLabeledCount, skippedDocumentCount, warnings>>
calls == <<summaryCalls, taxonomyCalls, labelCalls>>

NoResult == [returned |-> FALSE]
NoCall == [fn |-> Undefined]

\* normalizePredefinedTaxonomy(taxonomy)
normalizePredefinedTaxonomy(taxonomy) ==
    [k \in 1..Len(taxonomy) |->
        [id |-> taxonomy[k].id, name |-> taxonomy[k].name,
         description |-> taxonomy[k].description]]

\* a reducer that keeps the update only
ReducerReplaces(current, update) == update

\* reducer (current, update) => [...current, ...update] of the channels
\* clusters, status and warnings
Reducer(current, update) == current \o update

\* Delve.run up to graph.invoke: the constructor keeps the config as given,
\* run() normalizes the documents and builds initialState
Init ==
    \E raws \in Corpora, cfg \in Configs, opt \in PredefinedOptions :
        /\ config = cfg
        /\ options = opt
        /\ allDocuments = NormalizeDocuments(raws)
        /\ documents = <<>>
        /\ minibatches = <<>>
        /\ clusters = Reducer(<<>>, IF opt.given
                                    THEN <<normalizePredefinedTaxonomy(opt.taxonomy)>>
                                    ELSE <<>>)
        /\ status = <<>>
        /\ llmLabeledCount = 0
        /\ classifierLabeledCount = 0
        /\ skippedDocumentCount = 0
        /\ warnings = <<>>
        /\ pc = "load_data"
        /\ result = NoResult
        /\ error = Undefined
        /\ summaryCalls = <<>>
        /\ taxonomyCalls = <<>>
        /\ labelCalls = <<>>
        /\ call = NoCall
        /\ cancelRequested = Undefined

\* a routing function that ignores the predefined taxonomy
shouldDiscoverTaxonomyAlways(stateClusters) == "summarize"

\* a routing function that sends a discovery run past the summarize node
shouldDiscoverTaxonomySkipsSummarize(stateClusters) ==
    IF Len(stateClusters) > 0 THEN "label_documents" ELSE "get_minibatches"

\* shouldDiscoverTaxonomy(state)
shouldDiscoverTaxonomy(stateClusters) ==
    IF Len(stateClusters) > 0 THEN "label_documents" ELSE "summarize"

\* a routing function that leaves the loop one batch early
shouldReviewEarly(stateClusters, stateMinibatches) ==
    IF Len(stateClusters) + 1 >= Len(stateMinibatches)
    THEN "review_taxonomy" ELSE "update_taxonomy"

\* a routing function that asks for one snapshot more than there are batches
shouldReviewLate(stateClusters, stateMinibatches) ==
    IF Len(stateClusters) > Len(stateMinibatches)
    THEN "review_taxonomy" ELSE "update_taxonomy"

\* shouldReview(state)
shouldReview(stateClusters, stateMinibatches) ==
    IF Len(stateClusters) >= Len(stateMinibatches)
    THEN "review_taxonomy" ELSE "update_taxonomy"

\* a load_data node that returns the sample as allDocuments too
LoadDataReturnsSample ==
    /\ pc = "load_data"
    /\ \E sampling \in sampleDocuments(allDocuments, config.sampleSize) :
        LET sampled == sampling.value
        IN  /\ documents' = sampled
            /\ allDocuments' = sampled
            /\ status' = Reducer(status, <<"Loaded " \o String(Len(allDocuments))
                                            \o " documents, sampled "
                                            \o String(Len(sampled))>>)
    /\ pc' = shouldDiscoverTaxonomy(clusters)
    /\ UNCHANGED <<call, cancelRequested, config, options, minibatches, clusters, llmLabeledCount,
                   classifierLabeledCount, skippedDocumentCount, warnings, result, error, calls>>

\* node load_data, then the conditional edge shouldDiscoverTaxonomy
LoadData ==
    /\ pc = "load_data"
    /\ \E sampling \in sampleDocuments(allDocuments, config.sampleSize) :
        LET sampled == sampling.value
        IN  /\ documents' = sampled
            /\ allDocuments' = sampling.docs
            /\ status' = Reducer(status, <<"Loaded " \o String(Len(allDocuments))
                                            \o " documents, sampled "
                                            \o String(Len(sampled))>>)
    /\ pc' = shouldDiscoverTaxonomy(clusters)
    /\ UNCHANGED <<call, cancelRequested, config, options, minibatches, clusters, llmLabeledCount,
                   classifierLabeledCount, skippedDocumentCount, warnings, result, error, calls>>

\* a generation call that rejected: run() rejects with the same error
GenerationError == "generation call failed"

\* the record of a call whose promise rejected instead of giving a text
Rejected(issued) == [issued EXCEPT !.rejected = TRUE]

\* one summarization call: what the prompt was given and the text that came
\* back
SummaryCall(content, output) ==
    [content |-> content, output |-> output, rejected |-> FALSE]

\* the summarization calls of a loop over docs that got the given outputs
SummaryCalls(docs, outputs) ==
    [k \in 1..Len(outputs) |-> SummaryCall(docs[k].content, outputs[k])]

\* a summarize node that loops over state.allDocuments
SummarizeAllDocuments ==
    /\ pc = "summarize"
    /\ \E outputs \in SummaryOutputs(allDocuments) :
        LET summarizedDocs ==
                [k \in 1..Len(allDocuments) |->
                    [allDocuments[k] EXCEPT !.summary = parseSummary(outputs[k]).summary,
                                            !.explanation = parseSummary(outputs[k]).explanation]]
        IN  /\ documents' = summarizedDocs
            /\ status' = Reducer(status, <<"Summarized " \o String(Len(summarizedDocs))
                                            \o " documents">>)
            /\ summaryCalls' = summaryCalls \o SummaryCalls(allDocuments, outputs)
    /\ pc' = "get_minibatches"
    /\ UNCHANGED <<call, cancelRequested,
                   config, options, allDocuments, minibatches, clusters, llmLabeledCount,
                   classifierLabeledCount, skippedDocumentCount, warnings, result, error,
                   taxonomyCalls, labelCalls>>

\* node summarize: one call per sampled document, in order
Summarize ==
    /\ pc = "summarize"
    /\ \E outputs \in SummaryOutputs(documents) :
        LET summarizedDocs ==
                [k \in 1..Len(documents) |->
                    [documents[k] EXCEPT !.summary = parseSummary(outputs[k]).summary,
                                         !.explanation = parseSummary(outputs[k]).explanation]]
        IN  /\ documents' = summarizedDocs
            /\ status' = Reducer(status, <<"Summarized " \o String(Len(summarizedDocs))
                                            \o " documents">>)
            /\ summaryCalls' = summaryCalls \o SummaryCalls(documents, outputs)
    /\ pc' = "get_minibatches"
    /\ UNCHANGED <<call, cancelRequested,
                   config, options, allDocuments, minibatches, clusters, llmLabeledCount,
                   classifierLabeledCount, skippedDocumentCount, warnings, result, error,
                   taxonomyCalls, labelCalls>>

\* node summarize when the n-th chain.invoke rejects
SummarizeThrows ==
    /\ pc = "summarize"
    /\ \E n \in 1..Len(documents) :
        \E outputs \in SummaryOutputs(SubSeq(documents, 1, n - 1)) :
            summaryCalls' = summaryCalls \o SummaryCalls(documents, outputs)
                                \o <<Rejected(SummaryCall(documents[n].content,
                                                          MalformedSummary))>>
    /\ pc' = "rejected"
    /\ error' = GenerationError
    /\ UNCHANGED <<call, cancelRequested,
                   config, options, channels, result, taxonomyCalls, labelCalls>>

\* node get_minibatches; the run hangs inside generateMinibatches when its
\* loop does not terminate
GetMinibatches ==
    /\ pc = "get_minibatches"
    /\ LET made == generateMinibatches(Len(documents), config.batchSize)
       IN  IF made.returns
           THEN /\ minibatches' = made.batches
                /\ status' = Reducer(status, <<"Generated " \o String(Len(made.batches))
                                                \o " minibatches">>)
                /\ pc' = "generate_taxonomy"
           ELSE /\ pc' = "hung"
                /\ UNCHANGED <<minibatches, status>>
    /\ UNCHANGED <<call, cancelRequested,
                   config, options, allDocuments, documents, clusters, llmLabeledCount,
                   classifierLabeledCount, skippedDocumentCount, warnings, result, error,
                   calls>>

\* batchIndices.map((i) => state.documents[i])
BatchDocs(batchIndices, docs) == [k \in 1..Len(batchIndices) |-> docs[batchIndices[k] + 1]]

\* a revision that hands the proposal call the text of a first call
ExistingTaxonomyDropped(xml) == [existing |-> FALSE, xml |-> TaxonomyXml(FALSE, <<>>, <<>>)]

\* the feedback variable of TAXONOMY_GENERATION_PROMPT
NoFeedback == [existing |-> FALSE, xml |-> TaxonomyXml(FALSE, <<>>, <<>>)]
ExistingTaxonomy(xml) == [existing |-> TRUE, xml |-> xml]

\* one taxonomy proposal call: what the prompt was given
TaxonomyCall(feedback, maxClusters, dataXml) ==
    [feedback |-> feedback, max_num_clusters |-> maxClusters, data_xml |-> dataXml,
     output |-> TaxonomyXml(FALSE, <<>>, <<>>), rejected |-> FALSE]

\* the record of a proposal call once its text has come back
Answered(issued, output) == [issued EXCEPT !.output = output]

\* node generate_taxonomy (first batch)
GenerateTaxonomy ==
    /\ pc = "generate_taxonomy"
    /\ IF Len(minibatches) = 0
       THEN \* firstBatch is undefined: firstBatch.map throws a TypeError
            /\ pc' = "rejected"
            /\ error' = "TypeError"
            /\ UNCHANGED <<clusters, status, taxonomyCalls>>
       ELSE LET firstBatch == minibatches[1]
                dataXml == formatDocsAsXml(BatchDocs(firstBatch, documents))
            IN  /\ \E output \in TaxonomyOutputs :
                    LET taxonomy == parseTaxonomy(output)
                    IN  /\ taxonomyCalls' = Append(taxonomyCalls,
                                Answered(TaxonomyCall(NoFeedback, config.maxNumClusters,
                                                      dataXml), output))
                        /\ clusters' = Reducer(clusters, <<taxonomy>>)
                        /\ status' = Reducer(status,
                                <<"Generated initial taxonomy with "
                                  \o String(Len(taxonomy)) \o " categories">>)
                /\ pc' = "update_taxonomy"
                /\ UNCHANGED error
    /\ UNCHANGED <<call, cancelRequested,
                   config, options, allDocuments, documents, minibatches, llmLabeledCount,
                   classifierLabeledCount, skippedDocumentCount, warnings, result,
                   summaryCalls, labelCalls>>

\* node generate_taxonomy when chain.invoke rejects
GenerateTaxonomyThrows ==
    /\ pc = "generate_taxonomy"
    /\ Len(minibatches) > 0
    /\ taxonomyCalls' = Append(taxonomyCalls,
            Rejected(TaxonomyCall(NoFeedback, config.maxNumClusters,
                                  formatDocsAsXml(BatchDocs(minibatches[1], documents)))))
    /\ pc' = "rejected"
    /\ error' = GenerationError
    /\ UNCHANGED <<call, cancelRequested,
                   config, options, channels, result, summaryCalls, labelCalls>>

\* currentBatchIndex = state.clusters.length and
\* batchIndices = state.minibatches[currentBatchIndex] (0-based)
CurrentBatch(stateClusters, stateMinibatches) == stateMinibatches[Len(stateClusters) + 1]

\* node update_taxonomy (next batch), then the conditional edge shouldReview
UpdateTaxonomy ==
    /\ pc = "update_taxonomy"
    /\ LET currentClusters == clusters[Len(clusters)]
           currentBatchIndex == Len(clusters)
       IN  IF currentBatchIndex >= Len(minibatches)
           THEN /\ status' = Reducer(status, <<"No more batches to process">>)
                /\ pc' = shouldReview(clusters, minibatches)
                /\ UNCHANGED <<clusters, taxonomyCalls>>
           ELSE LET feedback == ExistingTaxonomy(formatTaxonomyAsXml(currentClusters))
                    batchIndices == CurrentBatch(clusters, minibatches)
                    dataXml == formatDocsAsXml(BatchDocs(batchIndices, documents))
                IN  /\ \E output \in TaxonomyOutputs :
                        /\ taxonomyCalls' = Append(taxonomyCalls,
                                Answered(TaxonomyCall(feedback, config.maxNumClusters,
                                                      dataXml), output))
                        /\ clusters' = Reducer(clusters, <<parseTaxonomy(output)>>)
                    /\ status' = Reducer(status,
                            <<"Updated taxonomy (batch " \o String(currentBatchIndex + 1)
                              \o "/" \o String(Len(minibatches)) \o ")">>)
                    /\ pc' = shouldReview(clusters', minibatches)
    /\ UNCHANGED <<call, cancelRequested,
                   config, options, allDocuments, documents, minibatches, llmLabeledCount,
                   classifierLabeledCount, skippedDocumentCount, warnings, result, error,
                   summaryCalls, labelCalls>>

\* node update_taxonomy when chain.invoke rejects
UpdateTaxonomyThrows ==
    /\ pc = "update_taxonomy"
    /\ Len(clusters) < Len(minibatches)
    /\ taxonomyCalls' = Append(taxonomyCalls,
            Rejected(TaxonomyCall(
                        ExistingTaxonomy(formatTaxonomyAsXml(clusters[Len(clusters)])),
                        config.maxNumClusters,
                        formatDocsAsXml(BatchDocs(CurrentBatch(clusters, minibatches),
                                                  documents)))))
    /\ pc' = "rejected"
    /\ error' = GenerationError
    /\ UNCHANGED <<call, cancelRequested,
                   config, options, channels, result, summaryCalls, labelCalls>>

\* a review node that returns the final taxonomy as a clusters update
ReviewTaxonomyAppends ==
    /\ pc = "review_taxonomy"
    /\ LET finalTaxonomy == clusters[Len(clusters)]
       IN  /\ clusters' = Reducer(clusters, <<finalTaxonomy>>)
           /\ status' = Reducer(status, <<"Finalized taxonomy with "
                                           \o String(Len(finalTaxonomy)) \o " categories">>)
    /\ pc' = "label_documents"
    /\ UNCHANGED <<call, cancelRequested,
                   config, options, allDocuments, documents, minibatches,
                   llmLabeledCount, classifierLabeledCount, skippedDocumentCount, warnings,
                   result, error, calls>>

\* node review_taxonomy
ReviewTaxonomy ==
    /\ pc = "review_taxonomy"
    /\ LET finalTaxonomy == clusters[Len(clusters)]
       IN  status' = Reducer(status, <<"Finalized taxonomy with "
                                       \o String(Len(finalTaxonomy)) \o " categories">>)
    /\ pc' = "label_documents"
    /\ UNCHANGED <<call, cancelRequested,
                   config, options, allDocuments, documents, minibatches, clusters,
                   llmLabeledCount, classifierLabeledCount, skippedDocumentCount, warnings,
                   result, error, calls>>

\* a labeler that visits the sampled documents only
DocumentsToLabelSampled == documents

\* for (const doc of state.allDocuments): the documents the labeler visits
DocumentsToLabel == allDocuments

\* a loop body whose invalid-id branch forgets skippedCount++
LabelOneUncounted(doc, output, taxonomy) ==
    LET categoryId == parseCategoryId(output)
    IN  IF categoryId = Undefined
        THEN [categoryName |-> "Other", skipped |-> 1,
              warnings |-> <<[text |-> "No category ID", categoryId |-> Undefined,
                              doc |-> doc.id]>>]
        ELSE LET found == getCategoryNameById(categoryId, taxonomy)
             IN  IF found.throws
                 THEN [categoryName |-> "Other", skipped |-> 0,
                       warnings |-> <<[text |-> "Invalid category ID",
                                       categoryId |-> categoryId, doc |-> doc.id]>>]
                 ELSE [categoryName |-> found.name, skipped |-> 0, warnings |-> <<>>]

\* the body of the labeling loop for one document: the category stored on
\* the document, the warnings pushed and the increment of skippedCount
LabelOne(doc, output, taxonomy) ==
    LET categoryId == parseCategoryId(output)
    IN  IF categoryId = Undefined
        THEN [categoryName |-> "Other", skipped |-> 1,
              warnings |-> <<[text |-> "No category ID", categoryId |-> Undefined,
                              doc |-> doc.id]>>]
        ELSE LET found == getCategoryNameById(categoryId, taxonomy)
             IN  IF found.throws
                 THEN [categoryName |-> "Other", skipped |-> 1,
                       warnings |-> <<[text |-> "Invalid category ID",
                                       categoryId |-> categoryId, doc |-> doc.id]>>]
                 ELSE [categoryName |-> found.name, skipped |-> 0, warnings |-> <<>>]

\* the local warnings list and the local skippedCount after the loop
RECURSIVE PushedWarnings(_)
PushedWarnings(labels) ==
    IF labels = <<>> THEN <<>>
    ELSE Head(labels).warnings \o PushedWarnings(Tail(labels))

RECURSIVE SkippedCount(_)
SkippedCount(labels) ==
    IF labels = <<>> THEN 0
    ELSE Head(labels).skipped + SkippedCount(Tail(labels))

\* one labeling call: what the prompt was given and the text that came back
LabelCall(content, taxonomyXml, output) ==
    [content |-> content, taxonomy |-> taxonomyXml, output |-> output,
     rejected |-> FALSE]

\* the labeling calls of a loop over docs that got the given outputs
LabelCalls(docs, taxonomyXml, outputs) ==
    [k \in 1..Len(outputs) |-> LabelCall(docs[k].content, taxonomyXml, outputs[k])]

\* node label_documents: one call per document of the whole corpus; the
\* returned update goes through the channel reducers
LabelDocuments ==
    /\ pc = "label_documents"
    /\ LET taxonomy == clusters[Len(clusters)]
           taxonomyXml == formatTaxonomyAsXml(taxonomy)
           docs == DocumentsToLabel
       IN  \E outputs \in [1..Len(docs) -> LabelOutputs] :
                LET labels == [k \in 1..Len(docs) |->
                                  LabelOne(docs[k], outputs[k], taxonomy)]
                    labeledDocs == [k \in 1..Len(docs) |->
                                       [docs[k] EXCEPT !.category = labels[k].categoryName]]
                IN  /\ documents' = labeledDocs
                    /\ llmLabeledCount' = Len(labeledDocs)
                    /\ classifierLabeledCount' = 0
                    /\ skippedDocumentCount' = SkippedCount(labels)
                    /\ warnings' = Reducer(warnings, warnings \o PushedWarnings(labels))
                    /\ status' = Reducer(status, <<"Labeled " \o String(Len(labeledDocs))
                                                    \o " documents">>)
                    /\ labelCalls' = labelCalls \o LabelCalls(docs, taxonomyXml, outputs)
    /\ pc' = "build_result"
    /\ UNCHANGED <<call, cancelRequested,
                   config, options, allDocuments, minibatches, clusters, result, error,
                   summaryCalls, taxonomyCalls>>

\* the text of a call that rejected instead of returning
NoOutput == [category_id |-> Undefined]

\* a labeler that catches the rejection of the n-th chain.invoke, leaves
\* the loop and lets the run go on to its result
LabelDocumentsCatches ==
    /\ pc = "label_documents"
    /\ LET taxonomyXml == formatTaxonomyAsXml(clusters[Len(clusters)])
           docs == DocumentsToLabel
       IN  \E n \in 1..Len(docs) :
            \E outputs \in [1..(n - 1) -> LabelOutputs] :
                labelCalls' = labelCalls \o LabelCalls(docs, taxonomyXml, outputs)
                              \o <<Rejected(LabelCall(docs[n].content, taxonomyXml,
                                                      NoOutput))>>
    /\ pc' = "build_result"
    /\ UNCHANGED <<call, cancelRequested, config, options, channels, result, error, summaryCalls,
                   taxonomyCalls>>

\* node label_documents when the n-th chain.invoke rejects
LabelDocumentsThrows ==
    /\ pc = "label_documents"
    /\ LET taxonomyXml == formatTaxonomyAsXml(clusters[Len(clusters)])
           docs == DocumentsToLabel
       IN  \E n \in 1..Len(docs) :
            \E outputs \in [1..(n - 1) -> LabelOutputs] :
                labelCalls' = labelCalls \o LabelCalls(docs, taxonomyXml, outputs)
                              \o <<Rejected(LabelCall(docs[n].content, taxonomyXml,
                                                      NoOutput))>>
    /\ pc' = "rejected"
    /\ error' = GenerationError
    /\ UNCHANGED <<call, cancelRequested,
                   config, options, channels, result, summaryCalls, taxonomyCalls>>

\* a buildResult that reports the first snapshot as the taxonomy
buildResultFirstSnapshot ==
    LET taxonomy == IF Len(clusters) > 0 THEN clusters[1] ELSE <<>>
        labeledDocuments == documents
    IN  [returned |-> TRUE,
         taxonomy |-> taxonomy,
         labeledDocuments |-> labeledDocuments,
         metadata |-> [numDocuments |-> Len(allDocuments),
                       numCategories |-> Len(taxonomy),
                       sampleSize |-> config.sampleSize,
                       batchSize |-> config.batchSize,
                       categoryCounts |-> countCategories(labeledDocuments),
                       llmLabeledCount |-> llmLabeledCount,
                       classifierLabeledCount |-> classifierLabeledCount,
                       skippedDocumentCount |-> skippedDocumentCount,
                       warnings |-> warnings,
                       statusLog |-> status]]

\* Delve.buildResult(state, durationSeconds), once graph.invoke has resolved
buildResult ==
    LET taxonomy == IF Len(clusters) > 0 THEN clusters[Len(clusters)] ELSE <<>>
        labeledDocuments == documents
    IN  [returned |-> TRUE,
         taxonomy |-> taxonomy,
         labeledDocuments |-> labeledDocuments,
         metadata |-> [numDocuments |-> Len(allDocuments),
                       numCategories |-> Len(taxonomy),
                       sampleSize |-> config.sampleSize,
                       batchSize |-> config.batchSize,
                       categoryCounts |-> countCategories(labeledDocuments),
                       llmLabeledCount |-> llmLabeledCount,
                       classifierLabeledCount |-> classifierLabeledCount,
                       skippedDocumentCount |-> skippedDocumentCount,
                       warnings |-> warnings,
                       statusLog |-> status]]

\* the end of Delve.run: the promise resolves with the DelveResult
BuildResult ==
    /\ pc = "build_result"
    /\ result' = buildResult
    /\ pc' = "resolved"
    /\ UNCHANGED <<call, cancelRequested, config, options, channels, error, calls>>

Next ==
    \/ LoadData
    \/ Summarize
    \/ SummarizeThrows
    \/ GetMinibatches
    \/ GenerateTaxonomy
    \/ GenerateTaxonomyThrows
    \/ UpdateTaxonomy
    \/ UpdateTaxonomyThrows
    \/ ReviewTaxonomy
    \/ LabelDocuments
    \/ LabelDocumentsThrows
    \/ BuildResult

Spec == Init /\ [][Next]_vars

(***************************************************************************)
(* A caller that gives up on a run in progress                             *)
(***************************************************************************)
\* the nodes of the graph
Nodes == {"load_data", "summarize", "get_minibatches", "generate_taxonomy",
          "update_taxonomy", "review_taxonomy", "label_documents"}

\* the runs whose caller may want to cancel: two sampled documents in
\* minibatches of one
CancelConfigs == {[sampleSize |-> 2, batchSize |-> 1, maxNumClusters |-> 2]}

InitCancel == Init /\ config \in CancelConfigs /\ Len(allDocuments) <= MaxCancelDocs

\* the caller of run() decides to cancel while a node is running.  run()
\* takes the documents and the RunOptions only and hands graph.invoke
\* nothing but `configurable`: the decision reaches neither the graph nor
\* the generation calls, and the run is left as it is.
RequestCancel ==
    /\ pc \in Nodes
    /\ cancelRequested = Undefined
    /\ cancelRequested' = pc
    /\ UNCHANGED <<config, options, channels, pc, result, error, calls, call>>

NextCancel ==
    \/ Next
    \/ RequestCancel

SpecCancel == InitCancel /\ [][NextCancel]_vars

(***************************************************************************)
(* sampleDocuments called on its own                                       *)
(***************************************************************************)
\* no run is in progress
NoRun ==
    /\ config = [sampleSize |-> DefaultSampleSize, batchSize |-> DefaultBatchSize,
                 maxNumClusters |-> DefaultMaxNumClusters]
    /\ options = NoPredefined
    /\ allDocuments = <<>>
    /\ documents = <<>>
    /\ minibatches = <<>>
    /\ clusters = <<>>
    /\ status = <<>>
    /\ llmLabeledCount = 0
    /\ classifierLabeledCount = 0
    /\ skippedDocumentCount = 0
    /\ warnings = <<>>
    /\ pc = "idle"
    /\ result = NoResult
    /\ error = Undefined
    /\ summaryCalls = <<>>
    /\ taxonomyCalls = <<>>
    /\ labelCalls = <<>>
    /\ cancelRequested = Undefined

\* document lists with unique ids: sequential ids, or ids of the caller
SamplerDocs ==
    {NormalizeDocuments([i \in 1..m |-> RawString(Content(i))]) : m \in 0..MaxSampleDocs}
    \cup {NormalizeDocuments([i \in 1..m |-> RawDoc("ticket-" \o String(i), Content(i))]) :
            m \in 1..MaxSampleDocs}
SamplerSizes == (-1)..(MaxSampleDocs + 1)

InitSampler ==
    /\ NoRun
    /\ \E docs \in SamplerDocs, sampleSize \in SamplerSizes :
        call = [fn |-> "sampleDocuments", docs |-> docs, sampleSize |-> sampleSize,
                returned |-> FALSE, value |-> <<>>, aliased |-> FALSE, after |-> docs]

\* sampleDocuments(docs, sampleSize) returns: `value` is what it returned,
\* `aliased` whether that is the caller's own array, `after` the elements of
\* the caller's array once the call is over
SampleDocumentsReturns ==
    /\ call.fn = "sampleDocuments"
    /\ ~call.returned
    /\ \E sampling \in sampleDocuments(call.docs, call.sampleSize) :
        call' = [call EXCEPT !.returned = TRUE, !.value = sampling.value,
                             !.aliased = sampling.aliased, !.after = sampling.docs]
    /\ UNCHANGED <<cancelRequested, config, options, channels, pc, result, error, calls>>

NextSampler == SampleDocumentsReturns

SpecSampler == InitSampler /\ [][NextSampler]_vars

(***************************************************************************)
(* generateMinibatches called on its own                                   *)
(***************************************************************************)
BatcherCounts == 0..MaxCount
BatcherSizes == (-1)..(MaxCount + 1)

InitBatcher ==
    /\ NoRun
    /\ \E docCount \in BatcherCounts, batchSize \in BatcherSizes :
        call = [fn |-> "generateMinibatches", docCount |-> docCount,
                batchSize |-> batchSize, returned |-> FALSE, hung |-> FALSE,
                value |-> <<>>]

\* generateMinibatches(docCount, batchSize) returns its batches
GenerateMinibatchesReturns ==
    /\ call.fn = "generateMinibatches"
    /\ ~call.returned /\ ~call.hung
    /\ generateMinibatches(call.docCount, call.batchSize).returns
    /\ call' = [call EXCEPT !.returned = TRUE,
                            !.value = generateMinibatches(call.docCount,
                                                          call.batchSize).batches]
    /\ UNCHANGED <<cancelRequested, config, options, channels, pc, result, error, calls>>

\* generateMinibatches(docCount, batchSize) when its loop never ends
GenerateMinibatchesHangs ==
    /\ call.fn = "generateMinibatches"
    /\ ~call.returned /\ ~call.hung
    /\ ~generateMinibatches(call.docCount, call.batchSize).returns
    /\ call' = [call EXCEPT !.hung = TRUE]
    /\ UNCHANGED <<cancelRequested, config, options, channels, pc, result, error, calls>>

NextBatcher ==
    \/ GenerateMinibatchesReturns
    \/ GenerateMinibatchesHangs

SpecBatcher == InitBatcher /\ [][NextBatcher]_vars

(***************************************************************************)
(* The normalization of run()'s documents on its own                       *)
(***************************************************************************)
\* ids a caller gives to documents
CallerIds == {"ticket-a", "1", "2"}

\* what a caller can pass at 1-based position i: a plain string, a Doc
\* without id, or a Doc with an id of its own
RawInputs(i) ==
    {RawString(Content(i)), RawDoc(Undefined, Content(i))}
    \cup {RawDoc(id, Content(i)) : id \in CallerIds}

\* inputs of up to MaxDocs elements whose caller-supplied ids are mutually
\* distinct
NormalizeInputs ==
    UNION {{raws \in [1..m -> UNION {RawInputs(i) : i \in 1..m}] :
                /\ \A i \in 1..m : raws[i] \in RawInputs(i)
                /\ \A i, j \in 1..m :
                    (i # j /\ raws[i].id # Undefined) => raws[i].id # raws[j].id} :
           m \in 0..MaxDocs}

InitNormalize ==
    /\ NoRun
    /\ \E raws \in NormalizeInputs :
        call = [fn |-> "normalize", raws |-> raws, returned |-> FALSE, value |-> <<>>]

\* documents.map(...) in run() returns the Doc array
NormalizeReturns ==
    /\ call.fn = "normalize"
    /\ ~call.returned
    /\ call' = [call EXCEPT !.returned = TRUE, !.value = NormalizeDocuments(call.raws)]
    /\ UNCHANGED <<cancelRequested, config, options, channels, pc, result, error, calls>>

NextNormalize == NormalizeReturns

SpecNormalize == InitNormalize /\ [][NextNormalize]_vars

(***************************************************************************)
(* Runs with a positive batchSize whose generation calls all return: a     *)
(* node that can run does run (the event loop resumes every continuation   *)
(* whose promise has settled).  The sample is the whole corpus.            *)
(***************************************************************************)
LiveConfigs ==
    {cfg \in Configs : /\ cfg.batchSize > 0
                       /\ cfg.sampleSize = DefaultSampleSize
                       /\ cfg.maxNumClusters = 2}

InitLive == Init /\ config \in LiveConfigs

SpecLive == InitLive /\ [][Next]_vars /\ WF_vars(Next)

(***************************************************************************)
(* parseTaxonomy called on its own, on two generation outputs              *)
(***************************************************************************)
\* <cluster> elements an output can hold: a complete one, one without <id>
\* and one without <name>
ParserClusters ==
    {ClusterXml("1", CategoryNames[1], "about it"),
     ClusterXml(Undefined, CategoryNames[2], "about it"),
     ClusterXml("2", Undefined, "about it")}

ParserClusterLists ==
    UNION {[1..m -> ParserClusters] : m \in 0..MaxParseClusters}

\* generation outputs: a <cluster_table> around the clusters, or none
ParserInputs ==
    {TaxonomyXml(TRUE, list, <<>>) : list \in ParserClusterLists}
    \cup {TaxonomyXml(FALSE, <<>>, list) : list \in ParserClusterLists}

InitParser ==
    /\ NoRun
    /\ \E first \in ParserInputs, second \in ParserInputs :
        call = [fn |-> "parseTaxonomy",
                xmlString |-> <<first, second>>,
                returned |-> <<FALSE, FALSE>>,
                value |-> <<<<>>, <<>>>>]

\* parseTaxonomy(xmlString) returns for the k-th of the two outputs
ParseTaxonomyReturns(k) ==
    /\ call.fn = "parseTaxonomy"
    /\ ~call.returned[k]
    /\ call' = [call EXCEPT !.returned[k] = TRUE,
                            !.value[k] = parseTaxonomy(call.xmlString[k])]
    /\ UNCHANGED <<cancelRequested, config, options, channels, pc, result, error, calls>>

NextParser == \E k \in {1, 2} : ParseTaxonomyReturns(k)

SpecParser == InitParser /\ [][NextParser]_vars

(***************************************************************************)
(* Two runs in one process.  A run gives up control at every awaited       *)
(* generation call, so the steps of the two runs interleave call by call.  *)
(* call.runs holds the graph state of each run, call.locals the variables  *)
(* of the node function each run is executing.                             *)
(***************************************************************************)
Runs == {1, 2}

\* the corpus of run r: n documents with ids and contents of their own
ConcurrentCorpus(r, n) ==
    [i \in 1..n |-> RawDoc("run-" \o String(r) \o "-doc-" \o String(i), Content(10 * r + i))]

\* both runs use one batch per document and the default sample size
ConcurrentConfig ==
    [sampleSize |-> DefaultSampleSize, batchSize |-> 1, maxNumClusters |-> 2]

\* a discovery run, or a run with the predefined taxonomy Bug / Feature
ConcurrentOptions ==
    {opt \in PredefinedOptions :
        ~opt.given \/ (Len(opt.taxonomy) > 0 /\ opt.taxonomy[1].name = "Bug")}

\* what the generation service answers to the runs
ConcurrentSummaryOutputs(doc) == {CompleteSummary(doc.content)}
ConcurrentTaxonomyOutputs == {WellFormed(1)}

\* the declarations at the top of summarize and labelDocuments
NoLocals == [docs |-> <<>>, warnings |-> <<>>, skippedCount |-> 0]

\* initialState of run(): the graph state of one run, its position and the
\* generation calls it has issued
RunState(raws, cfg, opt) ==
    [config |-> cfg,
     options |-> opt,
     allDocuments |-> NormalizeDocuments(raws),
     documents |-> <<>>,
     minibatches |-> <<>>,
     clusters |-> Reducer(<<>>, IF opt.given
                                THEN <<normalizePredefinedTaxonomy(opt.taxonomy)>>
                                ELSE <<>>),
     status |-> <<>>,
     llmLabeledCount |-> 0,
     classifierLabeledCount |-> 0,
     skippedDocumentCount |-> 0,
     warnings |-> <<>>,
     pc |-> "load_data",
     i |-> 0,
     result |-> NoResult,
     summaryCalls |-> <<>>,
     taxonomyCalls |-> <<>>,
     labelCalls |-> <<>>]

\* variables declared in a function body that every activation shares
ActivationShared(locals, r, frame) == [q \in DOMAIN locals |-> frame]

\* const summarizedDocs / labeledDocs / warnings, let skippedCount: every
\* activation of a node function has variables of its own
Activation(locals, r, frame) == [locals EXCEPT ![r] = frame]

InitConcurrent ==
    /\ NoRun
    /\ \E n \in [Runs -> 1..MaxConcurrentDocs], opt \in [Runs -> ConcurrentOptions] :
        call = [fn |-> "run",
                runs |-> [r \in Runs |-> RunState(ConcurrentCorpus(r, n[r]),
                                                  ConcurrentConfig, opt[r])],
                locals |-> [r \in Runs |-> NoLocals]]

ConcurrentFrame == <<cancelRequested, config, options, channels, pc, result, error, calls>>

\* run r executes load_data
RunLoadData(r) ==
    LET s == call.runs[r]
    IN  /\ s.pc = "load_data"
        /\ \E sampling \in sampleDocuments(s.allDocuments, s.config.sampleSize) :
            call' = [call EXCEPT !.runs[r] =
                [s EXCEPT !.documents = sampling.value,
                          !.status = Reducer(s.status,
                                <<"Loaded " \o String(Len(s.allDocuments))
                                  \o " documents, sampled "
                                  \o String(Len(sampling.value))>>),
                          !.pc = shouldDiscoverTaxonomy(s.clusters)]]
        /\ UNCHANGED ConcurrentFrame

\* run r resumes in summarize when the call for its next document returns;
\* after the last document the node returns its update
RunSummarizeCall(r) ==
    LET s == call.runs[r]
    IN  /\ s.pc = "summarize"
        /\ s.i < Len(s.documents)
        /\ LET doc == s.documents[s.i + 1]
                frame == IF s.i = 0 THEN NoLocals ELSE call.locals[r]
           IN  \E output \in ConcurrentSummaryOutputs(doc) :
                LET parsed == parseSummary(output)
                    pushed == [frame EXCEPT !.docs =
                                  Append(@, [doc EXCEPT !.summary = parsed.summary,
                                                        !.explanation = parsed.explanation])]
                    issued == [s EXCEPT !.summaryCalls =
                                  Append(@, SummaryCall(doc.content, output))]
                IN  call' = [call EXCEPT
                        !.locals = Activation(call.locals, r, pushed),
                        !.runs[r] =
                            IF s.i + 1 < Len(s.documents)
                            THEN [issued EXCEPT !.i = s.i + 1]
                            ELSE [issued EXCEPT
                                    !.i = 0,
                                    !.documents = pushed.docs,
                                    !.status = Reducer(s.status,
                                        <<"Summarized " \o String(Len(pushed.docs))
                                          \o " documents">>),
                                    !.pc = "get_minibatches"]]
        /\ UNCHANGED ConcurrentFrame

\* run r executes get_minibatches
RunGetMinibatches(r) ==
    LET s == call.runs[r]
        made == generateMinibatches(Len(s.documents), s.config.batchSize)
    IN  /\ s.pc = "get_minibatches"
        /\ made.returns
        /\ call' = [call EXCEPT !.runs[r] =
                [s EXCEPT !.minibatches = made.batches,
                          !.status = Reducer(s.status,
                                <<"Generated " \o String(Len(made.batches))
                                  \o " minibatches">>),
                          !.pc = "generate_taxonomy"]]
        /\ UNCHANGED ConcurrentFrame

\* run r resumes in generate_taxonomy when its proposal call returns
RunGenerateTaxonomy(r) ==
    LET s == call.runs[r]
    IN  /\ s.pc = "generate_taxonomy"
        /\ Len(s.minibatches) > 0
        /\ LET dataXml == formatDocsAsXml(BatchDocs(s.minibatches[1], s.documents))
           IN  \E output \in ConcurrentTaxonomyOutputs :
                LET taxonomy == parseTaxonomy(output)
                IN  call' = [call EXCEPT !.runs[r] =
                        [s EXCEPT
                            !.taxonomyCalls =
                                Append(@, Answered(TaxonomyCall(NoFeedback,
                                                s.config.maxNumClusters, dataXml), output)),
                            !.clusters = Reducer(s.clusters, <<taxonomy>>),
                            !.status = Reducer(s.status,
                                <<"Generated initial taxonomy with "
                                  \o String(Len(taxonomy)) \o " categories">>),
                            !.pc = "update_taxonomy"]]
        /\ UNCHANGED ConcurrentFrame

\* run r executes update_taxonomy: without a call when no batch is left,
\* otherwise it resumes when the proposal call returns
RunUpdateTaxonomy(r) ==
    LET s == call.runs[r]
    IN  /\ s.pc = "update_taxonomy"
        /\ LET currentClusters == s.clusters[Len(s.clusters)]
               currentBatchIndex == Len(s.clusters)
           IN  IF currentBatchIndex >= Len(s.minibatches)
               THEN call' = [call EXCEPT !.runs[r] =
                        [s EXCEPT !.status = Reducer(s.status,
                                        <<"No more batches to process">>),
                                  !.pc = shouldReview(s.clusters, s.minibatches)]]
               ELSE LET feedback == ExistingTaxonomy(formatTaxonomyAsXml(currentClusters))
                        batchIndices == CurrentBatch(s.clusters, s.minibatches)
                        dataXml == formatDocsAsXml(BatchDocs(batchIndices, s.documents))
                    IN  \E output \in ConcurrentTaxonomyOutputs :
                            LET updated == Reducer(s.clusters, <<parseTaxonomy(output)>>)
                            IN  call' = [call EXCEPT !.runs[r] =
                                    [s EXCEPT
                                        !.taxonomyCalls =
                                            Append(@, Answered(TaxonomyCall(feedback,
                                                s.config.maxNumClusters, dataXml), output)),
                                        !.clusters = updated,
                                        !.status = Reducer(s.status,
                                            <<"Updated taxonomy (batch "
                                              \o String(currentBatchIndex + 1) \o "/"
                                              \o String(Len(s.minibatches)) \o ")">>),
                                        !.pc = shouldReview(updated, s.minibatches)]]
        /\ UNCHANGED ConcurrentFrame

\* run r executes review_taxonomy
RunReviewTaxonomy(r) ==
    LET s == call.runs[r]
    IN  /\ s.pc = "review_taxonomy"
        /\ call' = [call EXCEPT !.runs[r] =
                [s EXCEPT !.status = Reducer(s.status,
                                <<"Finalized taxonomy with "
                                  \o String(Len(s.clusters[Len(s.clusters)]))
                                  \o " categories">>),
                          !.pc = "label_documents"]]
        /\ UNCHANGED ConcurrentFrame

\* run r resumes in label_documents when the call for its next document
\* returns; after the last document the node returns its update
RunLabelCall(r) ==
    LET s == call.runs[r]
    IN  /\ s.pc = "label_documents"
        /\ s.i < Len(s.allDocuments)
        /\ LET doc == s.allDocuments[s.i + 1]
               taxonomy == s.clusters[Len(s.clusters)]
               taxonomyXml == formatTaxonomyAsXml(taxonomy)
               frame == IF s.i = 0 THEN NoLocals ELSE call.locals[r]
           IN  \E output \in LabelOutputs :
                LET label == LabelOne(doc, output, taxonomy)
                    pushed == [docs |-> Append(frame.docs,
                                        [doc EXCEPT !.category = label.categoryName]),
                               warnings |-> frame.warnings \o label.warnings,
                               skippedCount |-> frame.skippedCount + label.skipped]
                    issued == [s EXCEPT !.labelCalls =
                                  Append(@, LabelCall(doc.content, taxonomyXml, output))]
                IN  call' = [call EXCEPT
                        !.locals = Activation(call.locals, r, pushed),
                        !.runs[r] =
                            IF s.i + 1 < Len(s.allDocuments)
                            THEN [issued EXCEPT !.i = s.i + 1]
                            ELSE [issued EXCEPT
                                    !.i = 0,
                                    !.documents = pushed.docs,
                                    !.llmLabeledCount = Len(pushed.docs),
                                    !.classifierLabeledCount = 0,
                                    !.skippedDocumentCount = pushed.skippedCount,
                                    !.warnings = Reducer(s.warnings,
                                                         s.warnings \o pushed.warnings),
                                    !.status = Reducer(s.status,
                                        <<"Labeled " \o String(Len(pushed.docs))
                                          \o " documents">>),
                                    !.pc = "build_result"]]
        /\ UNCHANGED ConcurrentFrame

\* run r resolves with buildResult(state, durationSeconds)
RunBuildResult(r) ==
    LET s == call.runs[r]
        taxonomy == IF Len(s.clusters) > 0 THEN s.clusters[Len(s.clusters)] ELSE <<>>
    IN  /\ s.pc = "build_result"
        /\ call' = [call EXCEPT !.runs[r] =
                [s EXCEPT
                    !.result =
                        [returned |-> TRUE,
                         taxonomy |-> taxonomy,
                         labeledDocuments |-> s.documents,
                         metadata |-> [numDocuments |-> Len(s.allDocuments),
                                       numCategories |-> Len(taxonomy),
                                       categoryCounts |-> countCategories(s.documents),
                                       llmLabeledCount |-> s.llmLabeledCount,
                                       classifierLabeledCount |-> s.classifierLabeledCount,
                                       skippedDocumentCount |-> s.skippedDocumentCount,
                                       warnings |-> s.warnings,
                                       statusLog |-> s.status]],
                    !.pc = "resolved"]]
        /\ UNCHANGED ConcurrentFrame

NextConcurrent ==
    \E r \in Runs :
        \/ RunLoadData(r)
        \/ RunSummarizeCall(r)
        \/ RunGetMinibatches(r)
        \/ RunGenerateTaxonomy(r)
        \/ RunUpdateTaxonomy(r)
        \/ RunReviewTaxonomy(r)
        \/ RunLabelCall(r)
        \/ RunBuildResult(r)

SpecConcurrent == InitConcurrent /\ [][NextConcurrent]_vars

(***************************************************************************)
(* API client (@delve/client): Delve.generate against the REST API.  The   *)
(* server and its job are the environment; time is counted in seconds and  *)
(* every HTTP request returns at once.                                      *)
(***************************************************************************)
\* the default of waitForCompletion's pollInterval (2000 ms)
pollInterval == 2

\* DelveOptions.timeout
ClientTimeouts == 0..MaxTimeout

\* the job as the server holds it; no job before POST /taxonomies
NoJob == [status |-> "none", result |-> Undefined, error |-> Undefined]

\* Job.result of a completed job (TaxonomyResult | null) and Job.error of a
\* failed one (string | null)
JobResults == {Undefined, "taxonomy result"}
JobErrors == {Undefined, "out of memory"}

\* new Delve(options).generate(request, onProgress?) has been called
InitClient ==
    /\ NoRun
    /\ \E onProgress \in BOOLEAN, timeout \in ClientTimeouts :
        call = [fn |-> "generate", onProgress |-> onProgress, timeout |-> timeout,
                at |-> "createJob", now |-> 0, jobsCreated |-> 0,
                job |-> NoJob, startTime |-> 0, wakeAt |-> 0,
                timer |-> Undefined, timerAt |-> 0, progress |-> 0,
                stream |-> "none", keepalives |-> 0, thrown |-> FALSE,
                settleCalls |-> 0,
                outcome |-> "pending", value |-> Undefined]

ClientFrame == <<cancelRequested, config, options, channels, pc, result, error, calls>>

\* resolve(value) / reject(reason) of the promise of generate(): the first
\* call settles it, a later call has no effect on it
Resolve(c, value) ==
    IF c.outcome = "pending"
    THEN [c EXCEPT !.at = "settled", !.outcome = "resolved", !.value = value,
                   !.settleCalls = @ + 1]
    ELSE [c EXCEPT !.settleCalls = @ + 1]
Reject(c, reason) ==
    IF c.outcome = "pending"
    THEN [c EXCEPT !.at = "settled", !.outcome = "rejected", !.value = reason,
                   !.settleCalls = @ + 1]
    ELSE [c EXCEPT !.settleCalls = @ + 1]

\* waitForCompletion(jobId) is entered: startTime = Date.now()
waitForCompletion(c) ==
    [c EXCEPT !.at = "waitForCompletion", !.startTime = c.now, !.wakeAt = c.now]

\* a 'completed' case that leaves the timeout timer armed
OnCompletedKeepsTimer(c, data) == Resolve([c EXCEPT !.stream = "closed"], data)

\* case 'completed' of eventSource.onmessage: clearTimeout, close, resolve
OnCompleted(c, data) == Resolve([c EXCEPT !.timer = Undefined, !.stream = "closed"], data)

\* a 'progress' case without its break: control falls into 'completed'
OnProgressFallsThrough(c, throws) ==
    Resolve([c EXCEPT !.progress = @ + 1, !.thrown = @ \/ throws,
                      !.timer = Undefined, !.stream = "closed"], Undefined)

\* case 'progress' of eventSource.onmessage: onProgress is called; when it
\* throws, the catch around the switch swallows the exception
OnProgress(c, throws) == [c EXCEPT !.progress = @ + 1, !.thrown = @ \/ throws]

\* createJob: POST /taxonomies answers with the new (pending) job, then
\* generate() starts to wait on the path chosen by onProgress
CreateJob ==
    /\ call.fn = "generate"
    /\ call.at = "createJob"
    /\ LET created == [call EXCEPT !.jobsCreated = call.jobsCreated + 1,
                                   !.job = [NoJob EXCEPT !.status = "pending"]]
       IN  call' = IF call.onProgress
                   THEN [created EXCEPT !.at = "waitWithProgress",
                                        !.stream = "open",
                                        !.timer = "armed",
                                        !.timerAt = call.now + call.timeout]
                   ELSE waitForCompletion(created)
    /\ UNCHANGED ClientFrame

\* createJob when the response is not ok
CreateJobThrows ==
    /\ call.fn = "generate"
    /\ call.at = "createJob"
    /\ call' = Reject(call, "API error")
    /\ UNCHANGED ClientFrame

\* the server starts, completes or fails the job
JobRuns ==
    /\ call.fn = "generate"
    /\ call.job.status = "pending"
    /\ call' = [call EXCEPT !.job.status = "running"]
    /\ UNCHANGED ClientFrame

JobCompletes ==
    /\ call.fn = "generate"
    /\ call.job.status = "running"
    /\ \E r \in JobResults :
        call' = [call EXCEPT !.job.status = "completed", !.job.result = r]
    /\ UNCHANGED ClientFrame

JobFails ==
    /\ call.fn = "generate"
    /\ call.job.status \in {"pending", "running"}
    /\ \E e \in JobErrors :
        call' = [call EXCEPT !.job.status = "failed", !.job.error = e]
    /\ UNCHANGED ClientFrame

\* a second passes while the client sleeps between two polls or listens to
\* the stream before its timer is due
Tick ==
    /\ call.fn = "generate"
    /\ \/ call.at = "waitForCompletion" /\ call.now < call.wakeAt
       \/ call.timer = "armed" /\ call.now < call.timerAt
    /\ call' = [call EXCEPT !.now = call.now + 1]
    /\ UNCHANGED ClientFrame

\* one turn of the while loop of waitForCompletion: the timeout test, getJob,
\* the two tests on the job and sleep(pollInterval)
Poll ==
    /\ call.fn = "generate"
    /\ call.at = "waitForCompletion"
    /\ call.now = call.wakeAt
    /\ call' = IF call.now - call.startTime > call.timeout
               THEN Reject(call, "timed out")
               ELSE IF call.job.status = "completed" /\ call.job.result # Undefined
               THEN Resolve(call, call.job.result)
               ELSE IF call.job.status = "failed"
               THEN Reject(call, IF call.job.error = Undefined THEN "Job failed"
                                 ELSE call.job.error)
               ELSE [call EXCEPT !.wakeAt = call.now + pollInterval]
    /\ UNCHANGED ClientFrame

\* getJob when the response is not ok (404 or another status)
PollGetJobThrows ==
    /\ call.fn = "generate"
    /\ call.at = "waitForCompletion"
    /\ call.now = call.wakeAt
    /\ ~(call.now - call.startTime > call.timeout)
    /\ call' = Reject(call, "API error")
    /\ UNCHANGED ClientFrame

\* eventSource.onmessage, case 'progress' (sent while the job runs)
StreamProgress ==
    /\ call.fn = "generate"
    /\ call.stream = "open"
    /\ call.job.status = "running"
    /\ call.progress < MaxProgress
    /\ \E throws \in BOOLEAN : call' = OnProgress(call, throws)
    /\ UNCHANGED ClientFrame

\* eventSource.onmessage with data that is not JSON (a keepalive):
\* JSON.parse throws and the catch ignores the message
StreamKeepalive ==
    /\ call.fn = "generate"
    /\ call.stream = "open"
    /\ call.keepalives < MaxProgress
    /\ call' = [call EXCEPT !.keepalives = @ + 1]
    /\ UNCHANGED ClientFrame

\* eventSource.onmessage, case 'completed': the event of a completed job
\* carries the job's result
StreamCompleted ==
    /\ call.fn = "generate"
    /\ call.stream = "open"
    /\ call.job.status = "completed"
    /\ call' = OnCompleted(call, call.job.result)
    /\ UNCHANGED ClientFrame

\* eventSource.onmessage, case 'error': the event of a failed job carries
\* the job's error
StreamJobError ==
    /\ call.fn = "generate"
    /\ call.stream = "open"
    /\ call.job.status = "failed"
    /\ call' = Reject([call EXCEPT !.timer = Undefined, !.stream = "closed"],
                      IF call.job.error = Undefined THEN "Job failed" ELSE call.job.error)
    /\ UNCHANGED ClientFrame

\* an onerror handler that rejects the wait instead of polling
StreamErrorRejects ==
    /\ call.fn = "generate"
    /\ call.stream = "open"
    /\ call' = Reject([call EXCEPT !.timer = Undefined, !.stream = "closed"],
                      "stream error")
    /\ UNCHANGED ClientFrame

\* eventSource.onerror: the timer is cleared, the stream closed and the wait
\* goes on in waitForCompletion
StreamError ==
    /\ call.fn = "generate"
    /\ call.stream = "open"
    /\ call' = waitForCompletion([call EXCEPT !.timer = Undefined, !.stream = "closed"])
    /\ UNCHANGED ClientFrame

\* the setTimeout callback of waitWithProgress
StreamTimeout ==
    /\ call.fn = "generate"
    /\ call.timer = "armed"
    /\ call.now = call.timerAt
    /\ call' = Reject([call EXCEPT !.timer = Undefined, !.stream = "closed"], "timed out")
    /\ UNCHANGED ClientFrame

NextClient ==
    \/ CreateJob
    \/ CreateJobThrows
    \/ JobRuns
    \/ JobCompletes
    \/ JobFails
    \/ Tick
    \/ Poll
    \/ PollGetJobThrows
    \/ StreamProgress
    \/ StreamKeepalive
    \/ StreamCompleted
    \/ StreamJobError
    \/ StreamError
    \/ StreamTimeout

SpecClient == InitClient /\ [][NextClient]_vars

(***************************************************************************)
(* Properties                                                              *)
(***************************************************************************)
\* the run builds its taxonomy itself (no predefined taxonomy)
DiscoveryRun == ~options.given

\* the run has got past the labeling node or returned
PastReview == pc \in {"review_taxonomy", "label_documents", "build_result", "resolved"}

\* C1: after the discovery step and after every revision step the current
\* taxonomy (the snapshot just appended) has at most maxNumClusters
\* categories, whatever the generation call returned.
C1_TaxonomyCap ==
    (DiscoveryRun /\ config.maxNumClusters > 0)
        => \A k \in 1..Len(clusters) : Len(clusters[k]) <= config.maxNumClusters

\* C2: in a discovery run with N >= 1 minibatches the proposal call is
\* issued at most once per minibatch, the k-th call receives exactly the
\* documents of minibatch k, and when the review step starts exactly N calls
\* have been issued and the snapshot sequence has exactly N elements.
C2_EveryMinibatchOnce ==
    DiscoveryRun =>
        /\ Len(taxonomyCalls) <= Len(minibatches)
        /\ pc \in {"update_taxonomy", "review_taxonomy", "label_documents"} =>
                \A k \in 1..Len(taxonomyCalls) :
                    taxonomyCalls[k].data_xml
                        = formatDocsAsXml(BatchDocs(minibatches[k], documents))
        /\ pc = "review_taxonomy" =>
                /\ Len(minibatches) >= 1
                /\ Len(taxonomyCalls) = Len(minibatches)
                /\ Len(clusters) = Len(minibatches)

\* the review step starts after three minibatches of one document each
C2_Witness ==
    /\ DiscoveryRun
    /\ pc = "review_taxonomy"
    /\ Len(minibatches) > 2
    /\ Len(taxonomyCalls) = Len(minibatches)
    /\ \A k \in 1..Len(minibatches) : Len(taxonomyCalls[k].data_xml) = 1

\* C3: after a completed run over M documents with 0 < sampleSize < M the
\* result holds exactly M labeled documents, each with a non-null category
\* and each labeled by a call of its own, while summarization calls were
\* issued only for sampled documents: for sampleSize distinct documents of
\* the corpus in a discovery run, for none with a predefined taxonomy.
C3_FullCorpusLabeled ==
    (result.returned /\ 0 < config.sampleSize /\ config.sampleSize < Len(allDocuments))
        => /\ Len(result.labeledDocuments) = Len(allDocuments)
           /\ \A k \in 1..Len(result.labeledDocuments) :
                result.labeledDocuments[k].category # Undefined
           /\ Len(labelCalls) = Len(allDocuments)
           /\ \A k \in 1..Len(labelCalls) : labelCalls[k].content = allDocuments[k].content
           /\ Len(summaryCalls) = IF DiscoveryRun THEN config.sampleSize ELSE 0
           /\ Cardinality({summaryCalls[k].content : k \in 1..Len(summaryCalls)})
                = Len(summaryCalls)
           /\ \A k \in 1..Len(summaryCalls) :
                \E j \in 1..Len(allDocuments) :
                    summaryCalls[k].content = allDocuments[j].content

\* a discovery run over three documents that sampled one of them returned
C3_Witness ==
    /\ result.returned
    /\ DiscoveryRun
    /\ Len(allDocuments) = 3
    /\ config.sampleSize = 1
    /\ Len(summaryCalls) = 1
    /\ Len(result.labeledDocuments) = 3

\* the identifier text of the k-th labeling output
OutputId(k) == labelCalls[k].output.category_id

\* the k-th document was resolved by the fallback: no identifier could be
\* parsed, or the identifier is the id of no category of the taxonomy
Fallback(k) ==
    \/ OutputId(k) \notin DigitStrings
    \/ \A j \in 1..Len(result.taxonomy) : result.taxonomy[j].id # OutputId(k)

\* C4: for every document and every classification output: no parseable
\* identifier gives category "Other"; an identifier that is the id of no
\* category gives "Other"; an identifier that is the id of a category gives
\* the name (not the id) of the first category of the taxonomy with that id.
C4_ResolutionPolicy ==
    result.returned =>
        \A k \in 1..Len(result.labeledDocuments) :
            LET category == result.labeledDocuments[k].category
                taxonomy == result.taxonomy
            IN  /\ OutputId(k) \notin DigitStrings => category = "Other"
                /\ (/\ OutputId(k) \in DigitStrings
                    /\ \A j \in 1..Len(taxonomy) : taxonomy[j].id # OutputId(k))
                        => category = "Other"
                /\ (/\ OutputId(k) \in DigitStrings
                    /\ \E j \in 1..Len(taxonomy) : taxonomy[j].id = OutputId(k))
                        => \E j \in 1..Len(taxonomy) :
                                /\ taxonomy[j].id = OutputId(k)
                                /\ \A i \in 1..(j - 1) : taxonomy[i].id # OutputId(k)
                                /\ category = taxonomy[j].name

\* taxonomy 1:Account, 2:Technical, ...; the outputs "1", none, "2" for
\* three documents gave Account, Other, Technical
C4_Witness ==
    /\ result.returned
    /\ Len(result.labeledDocuments) = 3
    /\ Len(result.taxonomy) >= 2
    /\ result.taxonomy[1].id = "1" /\ result.taxonomy[1].name = "Account"
    /\ result.taxonomy[2].id = "2" /\ result.taxonomy[2].name = "Technical"
    /\ OutputId(1) = "1" /\ OutputId(2) = Undefined /\ OutputId(3) = "2"
    /\ result.labeledDocuments[1].category = "Account"
    /\ result.labeledDocuments[2].category = "Other"
    /\ result.labeledDocuments[3].category = "Technical"

\* the ids of the fallback documents among the first k, in corpus order
RECURSIVE FallbackDocIds(_)
FallbackDocIds(k) ==
    IF k = 0 THEN <<>>
    ELSE IF Fallback(k) THEN Append(FallbackDocIds(k - 1), allDocuments[k].id)
         ELSE FallbackDocIds(k - 1)

\* C5: in the result of a run over M documents llmLabeledCount = M,
\* skippedDocumentCount is the number of documents resolved by the fallback,
\* and the warnings are exactly one per fallback document, in corpus order,
\* each naming that document's id.
C5_ExactAccounting ==
    result.returned =>
        /\ result.metadata.llmLabeledCount = Len(allDocuments)
        /\ result.metadata.skippedDocumentCount
            = Cardinality({k \in 1..Len(allDocuments) : Fallback(k)})
        /\ Len(result.metadata.warnings) = result.metadata.skippedDocumentCount
        /\ [k \in 1..Len(result.metadata.warnings) |-> result.metadata.warnings[k].doc]
            = FallbackDocIds(Len(allDocuments))

\* two categories with ids "1" and "2" were built; one document got no
\* identifier, another an identifier that is no id: two fallbacks are
\* counted and two warnings recorded
C5_Witness ==
    /\ result.returned
    /\ DiscoveryRun
    /\ Len(allDocuments) = 3
    /\ result.metadata.skippedDocumentCount = 2
    /\ Len(result.metadata.warnings) = 2
    /\ result.metadata.warnings[1].text = "No category ID"
    /\ result.metadata.warnings[2].text = "Invalid category ID"
    /\ result.metadata.llmLabeledCount = 3

\* C6: with a predefined taxonomy no taxonomy proposal call (and no
\* summarization call) is issued, the discovery, revision and review nodes
\* are never entered, the snapshot sequence is that one taxonomy, labeling
\* uses it and the result's taxonomy equals it.
C6_PredefinedPath ==
    options.given =>
        /\ taxonomyCalls = <<>>
        /\ summaryCalls = <<>>
        /\ pc \in {"load_data", "label_documents", "build_result", "resolved", "rejected"}
        /\ clusters = <<options.taxonomy>>
        /\ \A k \in 1..Len(labelCalls) :
                labelCalls[k].taxonomy = formatTaxonomyAsXml(options.taxonomy)
        /\ result.returned => result.taxonomy = options.taxonomy

\* a run with a predefined taxonomy of two categories labeled its corpus
C6_Witness ==
    /\ options.given
    /\ Len(options.taxonomy) = 2
    /\ result.returned
    /\ Len(labelCalls) = 3
    /\ result.labeledDocuments[1].category = "Bug"

\* C7: if the parse of the first batch's output yields zero categories the
\* run aborts: no revision call, no review, no labeling call, no result.
C7_DiscoveryFailureAborts ==
    (DiscoveryRun /\ Len(clusters) >= 1 /\ Len(clusters[1]) = 0)
        => /\ ~PastReview
           /\ Len(taxonomyCalls) <= 1
           /\ labelCalls = <<>>
           /\ ~result.returned

\* C8: when the parse of a later batch yields zero categories the run aborts
\* or keeps the previous snapshot: an empty taxonomy is never the feedback
\* of a following batch nor the taxonomy used for labeling (in a run whose
\* first snapshot is not empty).
C8_RevisionFailureKeepsTaxonomy ==
    (DiscoveryRun /\ Len(clusters) >= 1 /\ Len(clusters[1]) > 0)
        => /\ \A k \in 1..Len(taxonomyCalls) :
                taxonomyCalls[k].feedback.existing
                    => Len(taxonomyCalls[k].feedback.xml.table) > 0
           /\ \A k \in 1..Len(labelCalls) : Len(labelCalls[k].taxonomy.table) > 0

\* batchSize or maxNumClusters is not positive
InvalidConfig == config.batchSize <= 0 \/ config.maxNumClusters <= 0

\* C9: a run configured with a non-positive batchSize or maxNumClusters
\* fails before any generation call is issued: it issues no summarization,
\* proposal or labeling call, never hangs in batch formation and returns no
\* result.
C9_InvalidConfigFailsFast ==
    InvalidConfig
        => /\ summaryCalls = <<>>
           /\ taxonomyCalls = <<>>
           /\ labelCalls = <<>>
           /\ pc # "hung"
           /\ ~result.returned

\* C10: for a document list of length N with unique ids and 0 < sampleSize
\* < N, sampleDocuments returns exactly sampleSize documents, each an
\* element of the input, none of them twice, whatever the random choices.
C10_SamplerStrict ==
    (/\ call.fn = "sampleDocuments"
     /\ call.returned
     /\ 0 < call.sampleSize
     /\ call.sampleSize < Len(call.docs))
        => /\ Len(call.value) = call.sampleSize
           /\ \A k \in 1..Len(call.value) :
                \E j \in 1..Len(call.docs) : call.value[k] = call.docs[j]
           /\ \A k1, k2 \in 1..Len(call.value) :
                k1 # k2 => call.value[k1].id # call.value[k2].id

\* two of four documents were sampled and the shuffle moved the last
\* document to the front
C10_Witness ==
    /\ call.fn = "sampleDocuments"
    /\ call.returned
    /\ Len(call.docs) = 4
    /\ call.sampleSize = 2
    /\ Len(call.value) = 2
    /\ call.value[1] = call.docs[4]

\* C11: for a document list of length N and sampleSize <= 0 or sampleSize
\* >= N, sampleDocuments returns all N documents: same elements, same count,
\* same order, whatever the random source would have given.
C11_SamplerPassThrough ==
    (/\ call.fn = "sampleDocuments"
     /\ call.returned
     /\ (call.sampleSize <= 0 \/ call.sampleSize >= Len(call.docs)))
        => /\ Len(call.value) = Len(call.docs)
           /\ call.value = call.docs

\* four documents with sampleSize = 4 (the boundary sampleSize = N) came
\* back as they went in
C11_Witness ==
    /\ call.fn = "sampleDocuments"
    /\ call.returned
    /\ Len(call.docs) = 4
    /\ call.sampleSize = 4
    /\ call.value = call.docs

\* C12: after any call of sampleDocuments the caller's document sequence has
\* the same elements in the same order as before, and the returned sequence
\* is not the caller's own array.
C12_SamplerNoSideEffect ==
    (call.fn = "sampleDocuments" /\ call.returned)
        => /\ call.after = call.docs
           /\ ~call.aliased

\* the shuffle put the last of four documents first in the returned
\* sample, and the caller's list still starts with its first document
C12_Witness ==
    /\ call.fn = "sampleDocuments"
    /\ call.returned
    /\ Len(call.docs) = 4
    /\ call.sampleSize = 2
    /\ call.value[1] = call.docs[4]
    /\ call.after = call.docs
    /\ call.after[4] = call.docs[4]

\* the batches laid end to end
RECURSIVE Flatten(_)
Flatten(batches) ==
    IF batches = <<>> THEN <<>> ELSE Head(batches) \o Flatten(Tail(batches))

\* C13: for count >= 0 and an integer batchSize > 0 the batches returned by
\* generateMinibatches are contiguous index ranges, pairwise disjoint and
\* ascending, their concatenation is exactly 0..count-1, every batch but the
\* last has batchSize indices and the last has between 1 and batchSize.
C13_BatcherPartition ==
    (/\ call.fn = "generateMinibatches"
     /\ call.returned
     /\ call.batchSize > 0)
        => LET batches == call.value
               n == Len(batches)
           IN  /\ Flatten(batches) = [k \in 1..call.docCount |-> k - 1]
               /\ \A b \in 1..n :
                    /\ Len(batches[b]) >= 1
                    /\ Len(batches[b]) <= call.batchSize
                    /\ b < n => Len(batches[b]) = call.batchSize
                    /\ \A j \in 1..(Len(batches[b]) - 1) :
                            batches[b][j + 1] = batches[b][j] + 1
               /\ \A b \in 1..(n - 1) :
                    batches[b][Len(batches[b])] < batches[b + 1][1]
               /\ \A b1, b2 \in 1..n :
                    b1 # b2 => {batches[b1][j] : j \in 1..Len(batches[b1])}
                               \cap {batches[b2][j] : j \in 1..Len(batches[b2])} = {}

\* eight indices in batches of three: <<0,1,2>>, <<3,4,5>>, <<6,7>>
C13_Witness ==
    /\ call.fn = "generateMinibatches"
    /\ call.returned
    /\ call.docCount = 8
    /\ call.batchSize = 3
    /\ call.value = << <<0, 1, 2>>, <<3, 4, 5>>, <<6, 7>> >>

\* C14: for every count and every positive batchSize >= count,
\* generateMinibatches returns exactly one batch that holds all the indices
\* 0..count-1, also when count = 0.
C14_BatcherSingleBatch ==
    (/\ call.fn = "generateMinibatches"
     /\ call.returned
     /\ call.batchSize > 0
     /\ call.batchSize >= call.docCount)
        => /\ Len(call.value) = 1
           /\ call.value[1] = [k \in 1..call.docCount |-> k - 1]

Last(s) == s[Len(s)]

\* C16: in every step of a run the snapshot sequence stays the same or grows
\* by exactly one element at its end (no appended snapshot is changed or
\* removed), and the current taxonomy is always its last element: the
\* feedback of a revision call, the taxonomy of every labeling call and the
\* taxonomy of the result.
C16_SnapshotsAppendOnly ==
    [][/\ \/ clusters' = clusters
          \/ /\ Len(clusters') = Len(clusters) + 1
             /\ SubSeq(clusters', 1, Len(clusters)) = clusters
       /\ (Len(taxonomyCalls') > Len(taxonomyCalls) /\ Len(clusters) > 0)
            => Last(taxonomyCalls').feedback
                = ExistingTaxonomy(formatTaxonomyAsXml(Last(clusters)))
       /\ \A k \in (Len(labelCalls) + 1)..Len(labelCalls') :
            labelCalls'[k].taxonomy = formatTaxonomyAsXml(Last(clusters))
       /\ result'.returned => result'.taxonomy = Last(clusters')
      ]_vars

\* a run over three minibatches returned: three snapshots, the first unlike
\* the last, and the result carries the last
C16_Witness ==
    /\ result.returned
    /\ Len(clusters) = 3
    /\ clusters[1] # clusters[3]
    /\ Len(labelCalls) > 0
    /\ result.taxonomy = clusters[3]

\* C17: the category ids of every snapshot produced by discovery or
\* revision are the strings "1", "2", ..., "n" in output order (so pairwise
\* distinct), whatever ids the generation output carries.
C17_SequentialIds ==
    DiscoveryRun =>
        \A k \in 1..Len(clusters) :
            \A j \in 1..Len(clusters[k]) : clusters[k][j].id = String(j)

\* the nodes that run between summarization and labeling: `documents` holds
\* the summarized sample
AfterSummarize ==
    pc \in {"get_minibatches", "generate_taxonomy", "update_taxonomy", "review_taxonomy"}

\* C18: when the summarization output of a sampled document lacks the
\* summary (explanation) field the document gets the empty string as its
\* summary (explanation) and the run goes on to batching and taxonomy
\* building; the text such a document contributes to its minibatch is its
\* raw content, and a document with a non-empty summary contributes its
\* summary.
C18_SummaryFailureNonFatal ==
    DiscoveryRun =>
        /\ AfterSummarize =>
            /\ Len(summaryCalls) = Len(documents)
            /\ \A k \in 1..Len(documents) :
                LET output == summaryCalls[k].output
                IN  /\ documents[k].summary
                        = IF output.summary = Undefined THEN "" ELSE output.summary
                    /\ documents[k].explanation
                        = IF output.explanation = Undefined THEN ""
                          ELSE output.explanation
        /\ \A c \in 1..Len(taxonomyCalls) :
            /\ Len(taxonomyCalls[c].data_xml) = Len(minibatches[c])
            /\ \A j \in 1..Len(minibatches[c]) :
                LET made == summaryCalls[minibatches[c][j] + 1]
                IN  taxonomyCalls[c].data_xml[j].text
                        = IF made.output.summary = Undefined THEN made.content
                          ELSE made.output.summary

\* two sampled documents in one minibatch, the first without summary and
\* the second with one: the run reached the review node, and the proposal
\* call was given the content of the first and the summary of the second
C18_Witness ==
    /\ DiscoveryRun
    /\ pc = "review_taxonomy"
    /\ Len(documents) = 2
    /\ summaryCalls[1].output.summary = Undefined
    /\ summaryCalls[2].output.summary # Undefined
    /\ documents[1].summary = ""
    /\ Len(taxonomyCalls) = 1
    /\ taxonomyCalls[1].data_xml[1].text = documents[1].content
    /\ taxonomyCalls[1].data_xml[2].text = SummaryOf(documents[2].content)

\* the calls of a log that rejected
RejectedIn(log) == {k \in 1..Len(log) : log[k].rejected}

\* some generation call of the run has rejected
SomeCallRejected ==
    RejectedIn(summaryCalls) \cup RejectedIn(taxonomyCalls) \cup RejectedIn(labelCalls) # {}

\* the state of a run one of whose generation calls rejected: run() has
\* rejected with that error, the rejected call is the last call issued (its
\* own log ends with it and no call of a later stage exists) and there is no
\* result
AbortedByCall ==
    /\ pc = "rejected"
    /\ error = GenerationError
    /\ ~result.returned
    /\ RejectedIn(summaryCalls) \subseteq {Len(summaryCalls)}
    /\ RejectedIn(taxonomyCalls) \subseteq {Len(taxonomyCalls)}
    /\ RejectedIn(labelCalls) \subseteq {Len(labelCalls)}
    /\ RejectedIn(summaryCalls) # {} => (taxonomyCalls = <<>> /\ labelCalls = <<>>)
    /\ RejectedIn(taxonomyCalls) # {} => labelCalls = <<>>

\* C19: if a generation call rejects in summarization, discovery, revision
\* or labeling, the run is aborted with that error: no generation call is
\* issued afterwards and no result is returned; a result is produced only
\* once, after the labeling calls of the whole corpus have all returned.
C19_FatalErrorAborts ==
    [][/\ SomeCallRejected' => AbortedByCall'
       /\ SomeCallRejected => calls' = calls
       /\ result'.returned =>
            /\ ~SomeCallRejected'
            /\ Len(labelCalls') = Len(allDocuments')
            /\ error' = Undefined
       /\ result.returned => result' = result
      ]_vars

\* the labeling call of the second of three documents rejected, after a
\* discovery that issued its calls: the run rejected without a result
C19_Witness ==
    /\ pc = "rejected"
    /\ error = GenerationError
    /\ DiscoveryRun
    /\ Len(allDocuments) = 3
    /\ Len(taxonomyCalls) > 0
    /\ Len(labelCalls) = 2
    /\ ~labelCalls[1].rejected
    /\ labelCalls[2].rejected
    /\ ~result.returned

\* C20: a run can be cancelled by its caller while in any stage: from the
\* moment of the cancellation on the run issues no further generation call
\* and returns no result (not even a partial one), and it ends rejected
\* with the stage at which it was cancelled.
C20_CancelledRunStops ==
    [][cancelRequested # Undefined
        => /\ calls' = calls
           /\ ~result'.returned
           /\ pc' \in {"resolved", "rejected"}
                => (pc' = "rejected" /\ error' = cancelRequested)
      ]_vars

\* C21: generate(request[, onProgress]) creates exactly one job and then
\* waits; it resolves only once the job is completed, and then with that
\* job's non-null result; a rejection that is neither a timeout nor an HTTP
\* error happens only for a failed job and carries the job's error; it never
\* resolves while the job is pending or running.  On the polling path and on
\* the stream path.
C21_GenerateSettlesWithJob ==
    call.fn = "generate" =>
        /\ call.jobsCreated <= 1
        /\ call.job.status # "none" <=> call.jobsCreated = 1
        /\ call.outcome = "resolved" =>
            /\ call.job.status = "completed"
            /\ call.value # Undefined
            /\ call.value = call.job.result
        /\ (call.outcome = "rejected" /\ call.value \notin {"timed out", "API error"}) =>
            /\ call.job.status = "failed"
            /\ call.value = IF call.job.error = Undefined THEN "Job failed"
                            ELSE call.job.error

\* C22: a wait that started at time t (here 0) and whose job neither
\* completes nor fails is rejected with a timeout error no later than
\* t + timeout + one poll interval: no wait is still pending after that
\* moment and no timeout rejection happens later, on the polling path, on
\* the stream path and after a fall back from the stream to polling.
C22_TimeoutBound ==
    (call.fn = "generate" /\ call.at # "createJob")
        => /\ call.outcome = "pending" => call.now <= call.timeout + pollInterval
           /\ call.value = "timed out" => call.now <= call.timeout + pollInterval

\* the <cluster> elements of a proposal output that parse to a category
Proposed(output) ==
    SelectSeq(IF output.hasTable THEN output.table ELSE output.outside,
              LAMBDA c : c.id \in DigitStrings /\ c.name # Undefined)

\* C23: the feedback given to the proposal call for batch k > 1 is the
\* serialization of snapshot k-1 and of no other snapshot, the call for the
\* first batch gets the fixed text without feedback, and the snapshot
\* appended for batch k is exactly what the call's output holds: a category
\* for each of its clusters, in order, and nothing carried over from
\* snapshot k-1.
C23_RevisionFeedback ==
    DiscoveryRun =>
        \A k \in 1..Len(taxonomyCalls) :
            LET issued == taxonomyCalls[k]
            IN  /\ k = 1 => ~issued.feedback.existing
                /\ k > 1 =>
                    /\ issued.feedback.existing
                    /\ issued.feedback.xml.hasTable
                    /\ Len(issued.feedback.xml.table) = Len(clusters[k - 1])
                    /\ \A j \in 1..Len(clusters[k - 1]) :
                        /\ issued.feedback.xml.table[j].id = clusters[k - 1][j].id
                        /\ issued.feedback.xml.table[j].name = clusters[k - 1][j].name
                        /\ issued.feedback.xml.table[j].description
                            = clusters[k - 1][j].description
                /\ ~issued.rejected =>
                    /\ Len(clusters) >= k
                    /\ Len(clusters[k]) = Len(Proposed(issued.output))
                    /\ \A j \in 1..Len(clusters[k]) :
                        /\ clusters[k][j].id = Proposed(issued.output)[j].id
                        /\ clusters[k][j].name = Proposed(issued.output)[j].name

\* the second call was given the three categories of snapshot 1 as feedback,
\* its output left "Billing" out, and snapshot 2 has no "Billing"
C23_Witness ==
    /\ DiscoveryRun
    /\ Len(taxonomyCalls) >= 2
    /\ Len(clusters) >= 2
    /\ Len(clusters[1]) = 3
    /\ clusters[1][3].name = "Billing"
    /\ Len(taxonomyCalls[2].feedback.xml.table) = 3
    /\ Len(clusters[2]) = 2
    /\ \A j \in 1..Len(clusters[2]) : clusters[2][j].name # "Billing"

\* the stages of a discovery run in their order, and the position of one
StageOrder == <<"load_data", "summarize", "get_minibatches", "generate_taxonomy",
                "update_taxonomy", "review_taxonomy", "label_documents",
                "build_result", "resolved">>
Rank(stage) == CHOOSE i \in 1..Len(StageOrder) : StageOrder[i] = stage

\* the review node has finished: its status message is in the log
ReviewDone ==
    \E k \in 1..Len(status) :
        status[k] = "Finalized taxonomy with " \o String(Len(Last(clusters))) \o " categories"

\* C24: in a discovery run the stages execute in the order load/sample,
\* summarize, batch, discover, revise (0 or more times), review, label; a
\* proposal call is issued only when every earlier proposal call has had its
\* snapshot appended, no proposal call is issued before every sampled
\* document has been summarized and the batches are formed, and no labeling
\* call is issued before review has completed.
C24_StageOrder ==
    [][DiscoveryRun =>
        /\ (pc' # pc /\ pc' \notin {"rejected", "hung"}) => Rank(pc') = Rank(pc) + 1
        /\ (pc' = pc /\ pc \notin {"rejected", "hung", "resolved"})
            => pc = "update_taxonomy"
        /\ Len(taxonomyCalls') > Len(taxonomyCalls) =>
            /\ Len(taxonomyCalls') = Len(taxonomyCalls) + 1
            /\ Len(clusters) = Len(taxonomyCalls)
            /\ RejectedIn(summaryCalls) = {}
            /\ Len(summaryCalls) = Len(documents)
            /\ \A k \in 1..Len(documents) : summaryCalls[k].content = documents[k].content
            /\ Flatten(minibatches) = [k \in 1..Len(documents) |-> k - 1]
        /\ Len(labelCalls') > Len(labelCalls) =>
            /\ ReviewDone
            /\ Len(clusters) = Len(minibatches)
            /\ Len(taxonomyCalls) = Len(minibatches)
      ]_vars

\* a discovery run over three minibatches went through one discovery and
\* two revisions, the review and the labeling, and returned
C24_Witness ==
    /\ DiscoveryRun
    /\ result.returned
    /\ pc = "resolved"
    /\ Len(summaryCalls) = 3
    /\ Len(minibatches) = 3
    /\ Len(taxonomyCalls) = 3
    /\ Len(labelCalls) = 3
    /\ ReviewDone

\* C25: the review step leaves the snapshot sequence, the documents, the
\* minibatches, the counters and the warnings unchanged and issues no call:
\* it only appends one status message; so the taxonomy the labeling calls
\* are given is the last snapshot the builder produced, the one parsed from
\* the output of the last proposal call.
C25_ReviewPassThrough ==
    [][/\ (pc = "review_taxonomy" /\ pc' # pc) =>
            /\ clusters' = clusters
            /\ documents' = documents
            /\ allDocuments' = allDocuments
            /\ minibatches' = minibatches
            /\ llmLabeledCount' = llmLabeledCount
            /\ classifierLabeledCount' = classifierLabeledCount
            /\ skippedDocumentCount' = skippedDocumentCount
            /\ warnings' = warnings
            /\ calls' = calls
            /\ Len(status') = Len(status) + 1
            /\ SubSeq(status', 1, Len(status)) = status
       /\ (DiscoveryRun /\ Len(labelCalls') > Len(labelCalls)) =>
            LET final == Proposed(Last(taxonomyCalls).output)
                given == Last(labelCalls').taxonomy.table
            IN  /\ Len(clusters) = Len(taxonomyCalls)
                /\ Len(given) = Len(final)
                /\ \A j \in 1..Len(final) :
                    given[j].id = final[j].id /\ given[j].name = final[j].name
      ]_vars

\* the review of a two-snapshot run is over and labeling is about to start
\* with the snapshot sequence as the builder left it
C25_Witness ==
    /\ DiscoveryRun
    /\ pc = "label_documents"
    /\ ReviewDone
    /\ Len(clusters) = 2
    /\ Len(taxonomyCalls) = 2
    /\ Len(clusters[2]) > 0
    /\ labelCalls = <<>>

\* the ids of a document sequence, position by position
Ids(docs) == [k \in 1..Len(docs) |-> docs[k].id]

\* the contents of a document sequence, position by position
Contents(docs) == [k \in 1..Len(docs) |-> docs[k].content]

\* C26: in a discovery run summarization calls are issued by the summarize
\* step only; a completed summarize step issues one call per sampled
\* document, in sample order, on that document's content (so none for a
\* document outside the sample), and the summarized sequence has the
\* sample's length with the same ids and contents at the same positions;
\* the minibatch step that follows keeps the sequence and forms indices
\* 0..n-1 into it.
C26_SummarizerCoverage ==
    [][DiscoveryRun =>
        /\ summaryCalls' # summaryCalls => pc = "summarize" /\ summaryCalls = <<>>
        /\ (pc = "summarize" /\ pc' = "get_minibatches") =>
            /\ Len(summaryCalls') = Len(documents)
            /\ \A k \in 1..Len(documents) :
                /\ summaryCalls'[k].content = documents[k].content
                /\ ~summaryCalls'[k].rejected
            /\ Ids(documents') = Ids(documents)
            /\ Contents(documents') = Contents(documents)
        /\ (pc = "get_minibatches" /\ pc' = "generate_taxonomy") =>
            /\ documents' = documents
            /\ \A b \in 1..Len(minibatches') : \A j \in 1..Len(minibatches'[b]) :
                minibatches'[b][j] \in 0..(Len(documents) - 1)
      ]_vars

\* a corpus of three documents was sampled down to two, both were
\* summarized and the minibatches are formed
C26_Witness ==
    /\ DiscoveryRun
    /\ pc = "generate_taxonomy"
    /\ Len(allDocuments) = 3
    /\ Len(documents) = 2
    /\ Len(summaryCalls) = 2
    /\ minibatches # <<>>

\* C27: after normalization an input given as a plain string or as a
\* document without id at 0-based position i has the id String(i+1), a
\* supplied id is kept, and the ids of the normalized corpus are pairwise
\* distinct, also when only some inputs carry (mutually distinct) ids of
\* the caller.
C27_NormalizedIdsUnique ==
    (call.fn = "normalize" /\ call.returned) =>
        /\ Len(call.value) = Len(call.raws)
        /\ \A k \in 1..Len(call.raws) :
            /\ call.raws[k].id = Undefined => call.value[k].id = String(k)
            /\ call.raws[k].id # Undefined => call.value[k].id = call.raws[k].id
            /\ call.value[k].content = call.raws[k].content
        /\ \A j, k \in 1..Len(call.value) :
            j # k => call.value[j].id # call.value[k].id

\* C28: no step changes the normalized corpus (its order included), every
\* document a step leaves in the working sequence has the content the corpus
\* has for its id, and the i-th labeled document of the RunResult has the id
\* and the content of the i-th document of the corpus.
C28_LabeledMirrorCorpus ==
    [][/\ allDocuments' = allDocuments
       /\ \A k \in 1..Len(documents') :
            \E j \in 1..Len(allDocuments) :
                /\ allDocuments[j].id = documents'[k].id
                /\ allDocuments[j].content = documents'[k].content
       /\ result'.returned =>
            /\ Ids(result'.labeledDocuments) = Ids(allDocuments)
            /\ Contents(result'.labeledDocuments) = Contents(allDocuments)
      ]_vars

\* a result for a corpus of three documents whose sample was drawn in
\* another order than the corpus
C28_Witness ==
    /\ result.returned
    /\ Len(allDocuments) = 3
    /\ Len(result.labeledDocuments) = 3
    /\ summaryCalls # <<>>
    /\ summaryCalls[1].content # allDocuments[1].content

\* the sum of the values of a function with numbers as values
RECURSIVE SumOver(_, _)
SumOver(f, S) ==
    IF S = {} THEN 0
    ELSE LET x == CHOOSE y \in S : TRUE IN f[x] + SumOver(f, S \ {x})

\* C29: in the RunResult every category c a labeled document has is a key
\* of categoryCounts, categoryCounts[c] is the number of labeled documents
\* whose category is c, and the counts add up to the number of documents of
\* the corpus, also for a taxonomy with a category whose name is "".
C29_CountsAccountForAll ==
    result.returned =>
        LET docs == result.labeledDocuments
            counts == result.metadata.categoryCounts
            Labeled(c) == {k \in 1..Len(docs) : docs[k].category = c}
        IN  /\ \A k \in 1..Len(docs) : docs[k].category \in DOMAIN counts
            /\ \A c \in DOMAIN counts : counts[c] = Cardinality(Labeled(c))
            /\ SumOver(counts, DOMAIN counts) = Len(allDocuments)

\* the document at position k of the corpus was resolved by the fallback:
\* its labeling output has no usable id, or an id the final taxonomy lacks
ByFallback(k) ==
    \/ parseCategoryId(labelCalls[k].output) = Undefined
    \/ FindCategory(parseCategoryId(labelCalls[k].output), result.taxonomy) = 0

\* C30: in every RunResult a document has the category "Other" if and only
\* if it was resolved by the fallback, and the number of documents with the
\* category "Other" is skippedDocumentCount, whatever the taxonomy.
C30_OtherOnlyFallback ==
    result.returned =>
        LET docs == result.labeledDocuments
        IN  /\ \A k \in 1..Len(docs) : (docs[k].category = "Other") <=> ByFallback(k)
            /\ Cardinality({k \in 1..Len(docs) : docs[k].category = "Other"})
                    = result.metadata.skippedDocumentCount

\* the names of the categories of a taxonomy
NamesOf(taxonomy) == {taxonomy[j].name : j \in 1..Len(taxonomy)}

\* C31: in every RunResult the taxonomy is the last snapshot of the run,
\* numCategories is its length, numDocuments is the size of the corpus, and
\* the category of every labeled document is "Other" or the name of a
\* category of that taxonomy.
C31_ResultConsistency ==
    result.returned =>
        /\ clusters # <<>>
        /\ result.taxonomy = clusters[Len(clusters)]
        /\ result.metadata.numCategories = Len(result.taxonomy)
        /\ result.metadata.numDocuments = Len(allDocuments)
        /\ Len(result.labeledDocuments) = Len(allDocuments)
        /\ \A k \in 1..Len(result.labeledDocuments) :
            result.labeledDocuments[k].category \in {"Other"} \cup NamesOf(result.taxonomy)

\* a result whose run revised the taxonomy (the last snapshot differs from
\* the first) and labeled a document with a category of the last one
C31_Witness ==
    /\ result.returned
    /\ Len(clusters) = 2
    /\ clusters[1] # clusters[2]
    /\ \E k \in 1..Len(result.labeledDocuments) :
        /\ result.labeledDocuments[k].category # "Other"
        /\ result.labeledDocuments[k].category \in NamesOf(clusters[2])
        /\ result.labeledDocuments[k].category \notin NamesOf(clusters[1])

\* what a run alone makes of its own inputs and of the outputs its own
\* generation calls returned: its snapshots, its labels and its counters
AloneClusters(s) ==
    (IF s.options.given THEN <<normalizePredefinedTaxonomy(s.options.taxonomy)>> ELSE <<>>)
    \o [k \in 1..Len(s.taxonomyCalls) |-> parseTaxonomy(s.taxonomyCalls[k].output)]
AloneLabels(s) ==
    [k \in 1..Len(s.labelCalls) |->
        LabelOne(s.allDocuments[k], s.labelCalls[k].output, Last(AloneClusters(s)))]
AloneLabeled(s) ==
    [k \in 1..Len(s.labelCalls) |->
        [s.allDocuments[k] EXCEPT !.category = AloneLabels(s)[k].categoryName]]

\* C32: with two runs interleaved at their generation calls, each run's
\* snapshot sequence, labeled documents, counters and warnings are those the
\* run makes alone of its own inputs and call outputs, while it labels and
\* in its result; every warning of a run names a document of that run.
C32_RunIsolation ==
    call.fn = "run" =>
        \A r \in Runs :
            LET s == call.runs[r]
                labels == AloneLabels(s)
            IN  /\ s.clusters = AloneClusters(s)
                /\ \A k \in 1..Len(s.labelCalls) :
                    s.labelCalls[k].content = s.allDocuments[k].content
                /\ (s.pc = "label_documents" /\ s.i > 0) =>
                    /\ Len(s.labelCalls) = s.i
                    /\ call.locals[r].docs = AloneLabeled(s)
                    /\ call.locals[r].skippedCount = SkippedCount(labels)
                    /\ call.locals[r].warnings = PushedWarnings(labels)
                /\ s.result.returned =>
                    /\ Len(s.labelCalls) = Len(s.allDocuments)
                    /\ s.result.taxonomy = Last(AloneClusters(s))
                    /\ s.result.labeledDocuments = AloneLabeled(s)
                    /\ s.result.metadata.llmLabeledCount = Len(s.allDocuments)
                    /\ s.result.metadata.skippedDocumentCount = SkippedCount(labels)
                    /\ s.result.metadata.warnings = PushedWarnings(labels)
                    /\ \A w \in 1..Len(s.result.metadata.warnings) :
                        \E k \in 1..Len(s.allDocuments) :
                            s.result.metadata.warnings[w].doc = s.allDocuments[k].id

\* both runs are inside their labeling loops at once, the first having
\* skipped its first document and the second not
C32_Witness ==
    /\ call.fn = "run"
    /\ \A r \in Runs : call.runs[r].pc = "label_documents" /\ call.runs[r].i = 1
    /\ call.locals[1].skippedCount = 1
    /\ call.locals[2].skippedCount = 0
    /\ call.runs[1].taxonomyCalls # <<>>

\* a well-formed output that holds zero categories: an empty <cluster_table>
ZeroCategories(xml) == xml.hasTable /\ xml.table = <<>>

\* an output that cannot be parsed: no <cluster_table> and no <cluster>
\* element with both an id and a name
Unparseable(xml) == ~xml.hasTable /\ SelectSeq(xml.outside, ClusterMatches) = <<>>

\* C33: parsing a well-formed output with zero categories and parsing an
\* unparseable output never yield the same value.
C33_ParseOutcomeDistinct ==
    (/\ call.fn = "parseTaxonomy"
     /\ call.returned[1] /\ call.returned[2]
     /\ ZeroCategories(call.xmlString[1])
     /\ Unparseable(call.xmlString[2]))
        => call.value[1] # call.value[2]

\* the run is over: run() resolved with a RunResult or rejected
Terminal == pc \in {"resolved", "rejected"}

\* the status messages the revision node writes when there are n batches
UpdateMessages(n) ==
    {"No more batches to process"}
    \cup {"Updated taxonomy (batch " \o String(k) \o "/" \o String(n) \o ")" : k \in 1..(n + 1)}

\* how often the revision node has been entered
UpdateEntries ==
    Cardinality({k \in 1..Len(status) : status[k] \in UpdateMessages(Len(minibatches))})

\* at most max(1, N - 1) entries of the revision node for N minibatches;
\* no two proposal calls are about the same batch: the k-th is about the
\* k-th batch of the summarized sample (which `documents` holds until the
\* labeler replaces it)
BoundedRevision ==
    /\ UpdateEntries <= (IF Len(minibatches) - 1 > 1 THEN Len(minibatches) - 1 ELSE 1)
    /\ Len(taxonomyCalls) <= Len(minibatches)
    /\ \A j, k \in 1..Len(taxonomyCalls) :
        j # k => taxonomyCalls[j].data_xml # taxonomyCalls[k].data_xml
    /\ pc \in {"update_taxonomy", "review_taxonomy", "label_documents"} =>
        \A k \in 1..Len(taxonomyCalls) :
            taxonomyCalls[k].data_xml
                = formatDocsAsXml(BatchDocs(minibatches[k], documents))

\* C34: with a positive batchSize and generation calls that return, every
\* run reaches a terminal state (a RunResult or an error); on the way the
\* revision node is entered at most max(1, N - 1) times for N minibatches
\* and no batch is proposed from twice.
C34_Termination ==
    /\ [][BoundedRevision']_vars
    /\ (pc = "load_data") ~> Terminal

\* a finished run over three minibatches that entered the revision node
\* twice
C34_Witness ==
    /\ pc = "resolved"
    /\ config.batchSize > 0
    /\ Len(minibatches) = 3
    /\ UpdateEntries = 2
    /\ Len(taxonomyCalls) = 3

\* the outcome waitForCompletion gives for the job as it is: its non-null
\* result once completed, its error once failed, a timeout by the clock of
\* this wait, or the HTTP error of getJob
PollingOutcome(c, settled) ==
    /\ settled.outcome = "resolved" =>
        /\ c.job.status = "completed"
        /\ settled.value # Undefined
        /\ settled.value = c.job.result
    /\ settled.outcome = "rejected" =>
        \/ /\ c.job.status = "failed"
           /\ settled.value = (IF c.job.error = Undefined THEN "Job failed"
                               ELSE c.job.error)
        \/ settled.value = "timed out" /\ c.now - c.startTime > c.timeout
        \/ settled.value = "API error"

\* C35: on the stream path resolve/reject is called at most once; once the
\* promise is settled its outcome stays, the progress callback is not
\* invoked any more, the event source is not open and the timeout timer is
\* not armed.
C35_SettlesOnceAndCleansUp ==
    [][(call.fn = "generate" /\ call.onProgress) =>
        /\ call'.settleCalls <= 1
        /\ call.outcome # "pending" =>
            /\ call'.outcome = call.outcome
            /\ call'.value = call.value
            /\ call'.settleCalls = call.settleCalls
            /\ call'.progress = call.progress
            /\ call'.keepalives = call.keepalives
        /\ call'.outcome # "pending" =>
            /\ call'.stream # "open"
            /\ call'.timer # "armed"
      ]_vars

\* a stream wait that saw progress messages and a keepalive and was then
\* resolved by the 'completed' event
C35_Witness ==
    /\ call.fn = "generate"
    /\ call.onProgress
    /\ call.outcome = "resolved"
    /\ call.startTime = 0
    /\ call.at = "settled"
    /\ call.stream = "closed"
    /\ call.progress = MaxProgress
    /\ call.keepalives > 0
    /\ call.settleCalls = 1

\* C36: a step that closes the event source without settling the wait (the
\* stream's error handler) starts waitForCompletion with the timer cleared;
\* from then on the wait settles with the outcome of waitForCompletion; and
\* a step that closes the event source and rejects is the job's 'error'
\* event or the timeout, never the transport error alone.
C36_StreamFallback ==
    [][call.fn = "generate" =>
        /\ (call.stream = "open" /\ call'.stream = "closed"
                                /\ call'.outcome = "pending") =>
            /\ call'.at = "waitForCompletion"
            /\ call'.timer # "armed"
            /\ call'.job = call.job
        /\ (call.stream = "open" /\ call'.stream = "closed"
                                /\ call'.outcome = "rejected") =>
            \/ /\ call.job.status = "failed"
               /\ call'.value = (IF call.job.error = Undefined THEN "Job failed"
                                 ELSE call.job.error)
            \/ /\ call'.value = "timed out"
               /\ call.timer = "armed"
               /\ call.now = call.timerAt
        /\ (call.stream = "closed" /\ call.at = "waitForCompletion"
                                  /\ call'.outcome # "pending") =>
            PollingOutcome(call, call')
      ]_vars

\* a wait that fell back to polling some time after it began and was then
\* resolved with the result of the completed job
C36_Witness ==
    /\ call.fn = "generate"
    /\ call.onProgress
    /\ call.stream = "closed"
    /\ call.startTime > 0
    /\ call.outcome = "resolved"
    /\ call.value = "taxonomy result"
    /\ call.job.status = "completed"

\* C37: a 'progress' message (whether or not the callback throws) and an
\* unparseable message leave the wait pending, the event source open and
\* the timer armed; the event source stops being open only by a 'completed'
\* event, an 'error' event, a stream error or the timeout.
C37_ProgressNonTerminal ==
    [][call.fn = "generate" =>
        /\ (call'.progress > call.progress \/ call'.keepalives > call.keepalives) =>
            /\ call.outcome = "pending"
            /\ call'.outcome = "pending"
            /\ call'.at = "waitWithProgress"
            /\ call'.stream = "open"
            /\ call'.timer = "armed"
            /\ call'.timerAt = call.timerAt
            /\ call'.settleCalls = call.settleCalls
        /\ (call.stream = "open" /\ call'.stream # "open") =>
            \/ call.job.status = "completed" /\ call'.outcome = "resolved"
            \/ call.job.status = "failed" /\ call'.outcome = "rejected"
            \/ call.now = call.timerAt /\ call'.value = "timed out"
            \/ call'.outcome = "pending" /\ call'.at = "waitForCompletion"
      ]_vars

\* the callback was invoked for every progress message and threw at least
\* once, a keepalive came in, and the wait is still listening
C37_Witness ==
    /\ call.fn = "generate"
    /\ call.onProgress
    /\ call.thrown
    /\ call.progress = MaxProgress
    /\ call.keepalives > 0
    /\ call.outcome = "pending"
    /\ call.stream = "open"
    /\ call.timer = "armed"

====
